---- MODULE Spec2Model ----
(***************************************************************************)
(* Model of the sequential report-generation workflow of sweet-bnf:        *)
(* SequentialReportingServer (gallica/sequential_reporting.ts), the        *)
(* sequential_reporting tool wrapper and the single server instance that   *)
(* the HTTP handler shares between client sessions.                        *)
(*                                                                         *)
(* JavaScript values are records tagged with their typeof-like kind in     *)
(* field t; strings are TLA+ strings, processed character by character     *)
(* with SubSeq where the code parses or tests them.                        *)
(***************************************************************************)
EXTENDS Integers, Sequences, FiniteSets, TLC

VARIABLES
    state,      \* SequentialReportingServer.state (the one shared instance)
    inflight,   \* processSection calls suspended at an await of the search step
    result,     \* outcome of the most recently settled processSection call
    sent,       \* queries the most recent step sent to the Search Service
    recordCounts, \* records returned to each advancedSearch query of that step
    step,       \* the most recent step: a call (its input and session) or a resumption
    owner,      \* client session whose initialization built the stored report
    discoveredFor, \* topic that the stored sources were searched for
    http,       \* the HttpClient.get call: loop position, requests made, outcome
    transports  \* the HTTP handler: activeTransports and the SSE streams behind it

vars == <<state, inflight, result, sent, recordCounts, step, owner, discoveredFor, http,
          transports>>

-----------------------------------------------------------------------------
(* Bounds of the model *)

MaxSections == 2        \* appended sections per report
MaxInflight == 1        \* concurrently suspended search steps
MaxRecords == 1         \* records one Search Service response may carry
MaxPlanPages == 12      \* largest page_count explored by the plan builder
MaxGraphicsRecords == 3 \* records one answer to a graphics query may carry
MaxSectionNumber == 5   \* largest section_number of the outline specification
MaxTransports == 3      \* SSE sessions opened over the life of the process
MaxRetries == 3         \* largest retries setting of the HttpClient

-----------------------------------------------------------------------------
(* Program constants *)

DEFAULT_PAGE_COUNT == 4
DEFAULT_SOURCE_COUNT == 10
GRAPHICS_COUNT == 5
PLAN_CAP == 20

-----------------------------------------------------------------------------
(* JavaScript values *)

JNum(n)  == [t |-> "number", n |-> n]
JNaN     == [t |-> "nan"]
JStr(s)  == [t |-> "string", s |-> s]
JBool(b) == [t |-> "boolean", b |-> b]
JNull    == [t |-> "null"]
JUndef   == [t |-> "undefined"]
JArr(a)  == [t |-> "array", a |-> a]
JObj(f)  == [t |-> "object", f |-> f]

\* typeof v
TypeOf(v) ==
    CASE v.t = "number"    -> "number"
      [] v.t = "nan"       -> "number"
      [] v.t = "string"    -> "string"
      [] v.t = "boolean"   -> "boolean"
      [] v.t = "undefined" -> "undefined"
      [] OTHER             -> "object"

\* Boolean(v), the truthiness used by !, || and ?:
Truthy(v) ==
    CASE v.t = "number"    -> v.n # 0
      [] v.t = "nan"       -> FALSE
      [] v.t = "string"    -> v.s # ""
      [] v.t = "boolean"   -> v.b
      [] v.t = "null"      -> FALSE
      [] v.t = "undefined" -> FALSE
      [] OTHER             -> TRUE

Digits == <<"0", "1", "2", "3", "4", "5", "6", "7", "8", "9">>

IsDigit(c) == \E d \in 1..10 : Digits[d] = c

DigitVal(c) == (CHOOSE d \in 1..10 : Digits[d] = c) - 1

RECURSIVE NatToStr(_)
NatToStr(n) ==
    IF n < 10 THEN Digits[n + 1]
    ELSE NatToStr(n \div 10) \o Digits[(n % 10) + 1]

\* String(n) for an integer n
NumToStr(n) == IF n < 0 THEN "-" \o NatToStr(0 - n) ELSE NatToStr(n)

RECURSIVE JoinElems(_)
\* String(v) for a scalar, Array.prototype.join for an array
ToStr(v) ==
    CASE v.t = "number"    -> NumToStr(v.n)
      [] v.t = "nan"       -> "NaN"
      [] v.t = "string"    -> v.s
      [] v.t = "boolean"   -> IF v.b THEN "true" ELSE "false"
      [] v.t = "null"      -> "null"
      [] v.t = "undefined" -> "undefined"
      [] v.t = "array"     -> JoinElems(v.a)
      [] OTHER             -> "[object Object]"

JoinElems(a) ==
    IF a = <<>> THEN ""
    ELSE LET h == IF Head(a).t \in {"null", "undefined"} THEN ""
                  ELSE IF Head(a).t = "number" THEN NumToStr(Head(a).n)
                  ELSE IF Head(a).t = "string" THEN Head(a).s
                  ELSE IF Head(a).t = "boolean" THEN (IF Head(a).b THEN "true" ELSE "false")
                  ELSE "NaN"
         IN IF Len(a) = 1 THEN h ELSE h \o "," \o JoinElems(Tail(a))

\* /^\d+$/.test(s)
AllDigits(s) == Len(s) > 0 /\ \A i \in 1..Len(s) : IsDigit(SubSeq(s, i, i))

RECURSIVE DigitPrefix(_, _, _)
\* value of the longest run of decimal digits of s starting at position i
DigitPrefix(s, i, acc) ==
    IF i > Len(s) \/ ~IsDigit(SubSeq(s, i, i)) THEN acc
    ELSE DigitPrefix(s, i + 1, acc * 10 + DigitVal(SubSeq(s, i, i)))

RECURSIVE SkipSpaces(_, _)
SkipSpaces(s, i) ==
    IF i <= Len(s) /\ SubSeq(s, i, i) = " " THEN SkipSpaces(s, i + 1) ELSE i

\* parseInt(s, 10): leading blanks, an optional sign, then the digit prefix
ParseInt(s) ==
    LET i == SkipSpaces(s, 1)
        signed == i <= Len(s) /\ SubSeq(s, i, i) \in {"-", "+"}
        neg == signed /\ SubSeq(s, i, i) = "-"
        j == IF signed THEN i + 1 ELSE i
    IN IF j > Len(s) \/ ~IsDigit(SubSeq(s, j, j)) THEN JNaN
       ELSE JNum(IF neg THEN 0 - DigitPrefix(s, j, 0) ELSE DigitPrefix(s, j, 0))

\* a || b
OrElse(a, b) == IF Truthy(a) THEN a ELSE b

\* input.field of an object, undefined when the property is absent
Has(f, k) == k \in DOMAIN f
Get(f, k) == IF k \in DOMAIN f THEN f[k] ELSE JUndef

Min(a, b) == IF a < b THEN a ELSE b

-----------------------------------------------------------------------------
(* Report Plan Builder *)

PlanSection(title, bib) == [title |-> title, is_bibliography |-> bib]

PLAN_STEPS ==
    << "Initialize with topic", "Search for sources", "Create bibliography",
       "Write introduction", "Develop content sections", "Write conclusion" >>

\* const totalSections = Math.min(pageCount * 2 + 1, 20)
PlanTotalSections(pageCount) == Min(pageCount * 2 + 1, PLAN_CAP)

\* the sections pushed before the padding loop
PlanFixedSections(pageCount) ==
    << PlanSection("Bibliography", TRUE), PlanSection("Introduction", FALSE) >>
    \o (IF pageCount >= 2 THEN << PlanSection("Historical Context", FALSE) >> ELSE <<>>)
    \o (IF pageCount >= 3
        THEN << PlanSection("Main Analysis", FALSE), PlanSection("Key Findings", FALSE) >>
        ELSE <<>>)
    \o (IF pageCount >= 4
        THEN << PlanSection("Detailed Examination", FALSE),
                PlanSection("Critical Perspectives", FALSE) >>
        ELSE <<>>)

\* const remainingSections = totalSections - sections.length
PlanRemaining(pageCount) ==
    PlanTotalSections(pageCount) - Len(PlanFixedSections(pageCount))

\* a padding loop that flags its sections as bibliography
PlanPadding_Flagged(remaining) ==
    [k \in 1..(IF remaining > 0 THEN remaining ELSE 0) |->
        PlanSection("Additional Analysis " \o NumToStr(k), TRUE)]

\* for (let i = 0; i < remainingSections; i++) push `Additional Analysis ${i + 1}`
PlanPadding(remaining) ==
    [k \in 1..(IF remaining > 0 THEN remaining ELSE 0) |->
        PlanSection("Additional Analysis " \o NumToStr(k), FALSE)]

createPlan(topic, pageCount) ==
    LET sections == PlanFixedSections(pageCount)
                    \o PlanPadding(PlanRemaining(pageCount))
                    \o << PlanSection("Conclusion", FALSE) >>
    IN [ topic |-> topic,
         total_sections |-> Len(sections),
         sections |-> sections,
         current_section |-> 0,
         steps |-> PLAN_STEPS,
         current_step |-> 0,
         next_step |-> "Search for sources" ]

-----------------------------------------------------------------------------
(* Input validation and normalization *)

Threw(msg) == [threw |-> TRUE, error |-> msg]
Returned(data) == [threw |-> FALSE, data |-> data]

\* the initialization branch of validateSectionData
ValidatedInit(f) ==
    [k \in {"topic"} \cup ({"page_count", "source_count", "include_graphics"} \cap DOMAIN f) |->
        CASE k = "topic"        -> JStr(ToStr(f.topic))
          [] k = "page_count"   -> OrElse(ParseInt(ToStr(f.page_count)), JNum(DEFAULT_PAGE_COUNT))
          [] k = "source_count" -> OrElse(ParseInt(ToStr(f.source_count)), JNum(DEFAULT_SOURCE_COUNT))
          [] OTHER              -> JBool(Truthy(f.include_graphics))]

\* a digit-only string is converted with parseInt, any other value is kept
CoerceNumber(v) ==
    IF TypeOf(v) = "string" /\ AllDigits(v.s) THEN ParseInt(v.s) ELSE v

\* a section branch without the typeof content check
ValidatedSection_NoContentCheck(f) ==
    LET sectionNumber == CoerceNumber(Get(f, "section_number"))
        totalSections == CoerceNumber(Get(f, "total_sections"))
        content == IF Get(f, "content").t \in {"null", "undefined"} THEN JStr("")
                   ELSE Get(f, "content")
        sourcesUsed == IF Get(f, "sources_used").t \in {"null", "undefined"} THEN JArr(<<>>)
                       ELSE Get(f, "sources_used")
    IN IF ~Has(f, "section_number") \/ ~Has(f, "total_sections")
       THEN Threw("Missing required field: section_number or total_sections")
       ELSE IF TypeOf(sectionNumber) # "number"
       THEN Threw("Invalid section_number: must be a number")
       ELSE IF TypeOf(totalSections) # "number"
       THEN Threw("Invalid total_sections: must be a number")
       ELSE IF sourcesUsed.t # "array"
       THEN Threw("Invalid sources_used: must be an array")
       ELSE Returned(
            [ section_number |-> sectionNumber.n,
              total_sections |-> totalSections.n,
              title |-> IF Truthy(Get(f, "title")) THEN ToStr(Get(f, "title"))
                        ELSE "Section " \o ToStr(sectionNumber),
              content |-> ToStr(content),
              is_bibliography |-> Truthy(Get(f, "is_bibliography")),
              sources_used |-> sourcesUsed.a,
              next_section_needed |->
                  IF Get(f, "next_section_needed").t # "undefined"
                  THEN Truthy(Get(f, "next_section_needed"))
                  ELSE TRUE ])

\* the section branch of validateSectionData
ValidatedSection(f) ==
    LET sectionNumber == CoerceNumber(Get(f, "section_number"))
        totalSections == CoerceNumber(Get(f, "total_sections"))
        content == IF Get(f, "content").t \in {"null", "undefined"} THEN JStr("")
                   ELSE Get(f, "content")
        sourcesUsed == IF Get(f, "sources_used").t \in {"null", "undefined"} THEN JArr(<<>>)
                       ELSE Get(f, "sources_used")
    IN IF ~Has(f, "section_number") \/ ~Has(f, "total_sections")
       THEN Threw("Missing required field: section_number or total_sections")
       ELSE IF TypeOf(sectionNumber) # "number"
       THEN Threw("Invalid section_number: must be a number")
       ELSE IF TypeOf(totalSections) # "number"
       THEN Threw("Invalid total_sections: must be a number")
       ELSE IF TypeOf(content) # "string"
       THEN Threw("Invalid content: must be a string")
       ELSE IF sourcesUsed.t # "array"
       THEN Threw("Invalid sources_used: must be an array")
       ELSE Returned(
            [ section_number |-> sectionNumber.n,
              total_sections |-> totalSections.n,
              title |-> IF Truthy(Get(f, "title")) THEN ToStr(Get(f, "title"))
                        ELSE "Section " \o ToStr(sectionNumber),
              content |-> ToStr(content),
              is_bibliography |-> Truthy(Get(f, "is_bibliography")),
              sources_used |-> sourcesUsed.a,
              next_section_needed |->
                  IF Get(f, "next_section_needed").t # "undefined"
                  THEN Truthy(Get(f, "next_section_needed"))
                  ELSE TRUE ])

\* a validation that looks at search_sources before topic
validateSectionData_SearchFirst(inputData) ==
    IF inputData.t \notin {"object", "array"}
    THEN Threw("Cannot use 'in' operator to search for 'topic' in " \o ToStr(inputData))
    ELSE LET f == IF inputData.t = "object" THEN inputData.f ELSE [k \in {} |-> JUndef]
         IN IF Has(f, "search_sources") /\ Truthy(f.search_sources)
            THEN Returned([search_sources |-> JBool(TRUE)])
            ELSE IF Has(f, "topic") THEN Returned(ValidatedInit(f))
            ELSE ValidatedSection(f)

\* validateSectionData(inputData); the in operator throws on a primitive
validateSectionData(inputData) ==
    IF inputData.t \notin {"object", "array"}
    THEN Threw("Cannot use 'in' operator to search for 'topic' in " \o ToStr(inputData))
    ELSE LET f == IF inputData.t = "object" THEN inputData.f ELSE [k \in {} |-> JUndef]
         IN IF Has(f, "topic") THEN Returned(ValidatedInit(f))
            ELSE IF Has(f, "search_sources") /\ Truthy(f.search_sources)
            THEN Returned([search_sources |-> JBool(TRUE)])
            ELSE ValidatedSection(f)

-----------------------------------------------------------------------------
(* String helpers used by the discovery code *)

\* s.indexOf(sub) + 1, 0 when sub does not occur
IndexOf(s, sub) ==
    LET hits == {i \in 1..(Len(s) - Len(sub) + 1) : SubSeq(s, i, i + Len(sub) - 1) = sub}
    IN IF hits = {} THEN 0 ELSE CHOOSE i \in hits : \A j \in hits : i <= j

\* s.includes(sub)
Includes(s, sub) == sub = "" \/ IndexOf(s, sub) > 0

\* s.replace(sub, ''), which removes the first occurrence only
RemoveFirst(s, sub) ==
    LET i == IndexOf(s, sub)
    IN IF i = 0 THEN s ELSE SubSeq(s, 1, i - 1) \o SubSeq(s, i + Len(sub), Len(s))

UpperCase == "ABCDEFGHIJKLMNOPQRSTUVWXYZ"
LowerCase == "abcdefghijklmnopqrstuvwxyz"

LowerChar(c) ==
    LET i == IndexOf(UpperCase, c) IN IF i = 0 THEN c ELSE SubSeq(LowerCase, i, i)

RECURSIVE ToLowerCase(_)
ToLowerCase(s) ==
    IF s = "" THEN "" ELSE LowerChar(SubSeq(s, 1, 1)) \o ToLowerCase(SubSeq(s, 2, Len(s)))

\* topic.split(' ')[0]
FirstToken(s) ==
    LET i == IndexOf(s, " ") IN IF i = 0 THEN s ELSE SubSeq(s, 1, i - 1)

\* the capture of /ark:([^\/]+)/, "" when nothing matches
ArkCapture(url) ==
    LET starts == {i \in 1..Len(url) :
                      /\ i + 4 <= Len(url)
                      /\ SubSeq(url, i, i + 3) = "ark:"
                      /\ SubSeq(url, i + 4, i + 4) # "/"}
    IN IF starts = {} THEN ""
       ELSE LET i == CHOOSE k \in starts : \A j \in starts : k <= j
                rest == SubSeq(url, i + 4, Len(url))
                slash == IndexOf(rest, "/")
            IN IF slash = 0 THEN rest ELSE SubSeq(rest, 1, slash - 1)

\* a.slice(0, n)
SliceTo(a, n) ==
    LET end == IF n >= 0 THEN Min(n, Len(a))
               ELSE IF Len(a) + n > 0 THEN Len(a) + n ELSE 0
    IN SubSeq(a, 1, end)

-----------------------------------------------------------------------------
(* Search Service: SearchAPI returns a SearchResult for every query *)

GALLICA_ARK == "https://gallica.bnf.fr/ark:/12148/"

\* a parsed Dublin Core record; only the fields the record carries are present
ServiceRecord(docType, i) ==
    [ title |-> JStr(docType \o " " \o NumToStr(i)),
      creator |-> JArr(<< JStr("A"), JStr("B") >>),
      type |-> JStr(docType),
      identifier |-> JStr(GALLICA_ARK \o docType \o NumToStr(i)),
      gallica_url |-> JStr(GALLICA_ARK \o docType \o NumToStr(i)) ]

\* a successful search carrying k records
OkResult(docType, k) == [records |-> [i \in 1..k |-> ServiceRecord(docType, i)], failed |-> FALSE]

\* SearchAPI.search catches HTTP and parse failures: zero records and an error
ErrorResult == [records |-> <<>>, failed |-> TRUE]

\* the answers to one query: a failure, or as many records as one of counts
SearchResultsOf(docType, counts) == {OkResult(docType, k) : k \in counts} \cup {ErrorResult}

SearchResults(docType) == SearchResultsOf(docType, 0..MaxRecords)

Query(api, query, max) == [api |-> api, query |-> query, max |-> max]

-----------------------------------------------------------------------------
(* HttpClient.get: the retry loop *)

\* what one request(fullUrl, ...) can come to: a response with its status
\* code, or an exception (network error, timeout)
HttpResponse(status) == [kind |-> "response", status |-> status]
HttpException == [kind |-> "exception", status |-> 0]
HttpOutcomes == { HttpResponse(c) : c \in {200, 301, 404, 503} } \cup { HttpException }

\* response.statusCode >= 200 && response.statusCode < 300
IsSuccess(o) == o.kind = "response" /\ o.status >= 200 /\ o.status < 300

NoCall == [kind |-> "none"]

\* no get call has been made
HttpIdle ==
    [ pc |-> "idle", retries |-> 0, attempt |-> 0, requests |-> 0, responses |-> <<>>,
      lastError |-> JUndef, outcome |-> NoCall ]

\* a loop that runs one attempt too many
LoopContinues_OneMore(attempt, retries) == attempt <= retries + 1

\* for (let attempt = 0; attempt <= this.retries; attempt++)
LoopContinues(attempt, retries) == attempt <= retries

\* throw lastError || new Error('Request failed after retries')
Thrown(lastError) ==
    [ kind |-> "threw",
      error |-> IF lastError = JUndef THEN JStr("Request failed after retries")
                ELSE lastError ]

-----------------------------------------------------------------------------
(* SearchAPI.search: one request to the SRU endpoint and its parsing *)

\* the public methods and the CQL query each builds from its argument
SearchMethods ==
    { "searchByTitle", "searchByAuthor", "searchBySubject", "searchByDate",
      "searchByDocumentType", "advancedSearch", "naturalLanguageSearch" }

SearchQuery(method, term, exactMatch) ==
    LET quoted == "\"" \o term \o "\""
        field(name) == name \o " all " \o (IF exactMatch THEN quoted ELSE term)
    IN CASE method = "searchByTitle" -> field("dc.title")
         [] method = "searchByAuthor" -> field("dc.creator")
         [] method = "searchBySubject" -> field("dc.subject")
         [] method = "searchByDate" -> "dc.date all " \o quoted
         [] method = "searchByDocumentType" -> "dc.type all " \o quoted
         [] method = "advancedSearch" -> term
         [] OTHER -> "gallica all " \o quoted

\* bodies of a 2xx answer: not XML at all, XML without a searchRetrieveResponse
\* element, an SRU response whose records element holds text instead of
\* records, and an SRU response carrying k records
NoBody == [kind |-> "none", count |-> 0]
XmlBodies ==
    { [kind |-> k, count |-> 0] : k \in {"malformed", "foreign", "textrecords"} }
    \cup { [kind |-> "sru", count |-> k] : k \in 0..MaxRecords }

ErrorMessage(e) ==
    IF e \in {HttpResponse(c) : c \in 100..599} THEN "HTTP " \o NumToStr(e.status)
    ELSE IF e = HttpException THEN "fetch failed"
    ELSE "Request failed after retries"

\* what the catch blocks of search and of parseSruResponse return
SearchFailure(msg) == [records |-> <<>>, failed |-> TRUE, error |-> msg]

\* parseSruResponse(xmlBody, query); a record that is a text node has no
\* recordData and is skipped
parseSruResponse(body) ==
    CASE body.kind = "sru" -> OkResult("monographie", body.count)
      [] body.kind = "textrecords" -> OkResult("monographie", 0)
      [] body.kind = "foreign" ->
            SearchFailure("XML parsing error: Invalid SRU response structure")
      [] OTHER -> SearchFailure("XML parsing error: Unexpected end of input")

-----------------------------------------------------------------------------
(* The HTTP handler: SSE sessions and the activeTransports table *)

\* transport.sessionId of the n-th transport created (a random UUID)
TransportId(n) == "t" \o NumToStr(n)

\* the module-level table when the process starts; open and closed are the
\* SSE response streams that are connected and that have closed
NoTransports == [ active |-> {}, open |-> {}, closed |-> {}, created |-> 0 ]

\* url.searchParams.get('sessionId'): null when the query has no such
\* parameter, the empty string for "?sessionId="
SessionIdInputs ==
    { JNull, JStr(""), JStr("unknown") } \cup { JStr(TransportId(n)) : n \in 1..MaxTransports }

\* the sessionId the POST branch goes on with: the only active session when
\* the query gave none
RoutedSessionId(sessionId, active) ==
    IF ~Truthy(sessionId) /\ Cardinality(active) = 1
    THEN JStr(CHOOSE id \in active : TRUE)
    ELSE sessionId

\* a table that keeps the transports of closed sessions
AfterClose_Keep(active, id) == active

\* transport.onclose: activeTransports.delete(sessionId)
AfterClose(active, id) == active \ {id}

-----------------------------------------------------------------------------
(* Citation Formatter *)

\* Array.isArray(v) ? v[0] : v || fallback, interpolated into the template
CitationField(v, fallback) ==
    IF v.t = "array" THEN (IF v.a = <<>> THEN "undefined" ELSE ToStr(v.a[1]))
    ELSE IF Truthy(v) THEN ToStr(v) ELSE fallback

\* a formatter that prints the publisher for every type
formatCitation_AlwaysPublisher(record) ==
    LET creator == CitationField(Get(record, "creator"), "Unknown Author")
        title == CitationField(Get(record, "title"), "Unknown Title")
        publisher == CitationField(Get(record, "publisher"), "Unknown Publisher")
        date == CitationField(Get(record, "date"), "n.d.")
        url == ToStr(OrElse(Get(record, "gallica_url"), JStr("No URL available")))
    IN creator \o ". (" \o date \o "). " \o title \o ". " \o publisher
       \o ". Retrieved from " \o url

formatCitation(record) ==
    LET creator == CitationField(Get(record, "creator"), "Unknown Author")
        title == CitationField(Get(record, "title"), "Unknown Title")
        publisher == CitationField(Get(record, "publisher"), "Unknown Publisher")
        date == CitationField(Get(record, "date"), "n.d.")
        identifier == Get(record, "identifier")
        firstId == IF identifier.t = "array"
                   THEN (IF identifier.a = <<>> THEN JUndef ELSE identifier.a[1])
                   ELSE identifier
        url == ToStr(OrElse(OrElse(Get(record, "gallica_url"), firstId),
                            JStr("No URL available")))
        docType == ToLowerCase(CitationField(Get(record, "type"), ""))
    IN IF Includes(docType, "monographie") \/ Includes(docType, "book")
       THEN creator \o ". (" \o date \o "). " \o title \o ". " \o publisher
            \o ". Retrieved from " \o url
       ELSE IF Includes(docType, "periodique") \/ Includes(docType, "article")
       THEN creator \o ". (" \o date \o "). " \o title \o ". Retrieved from " \o url
       ELSE creator \o ". (" \o date \o "). " \o title \o ". " \o publisher
            \o ". Retrieved from " \o url

-----------------------------------------------------------------------------
(* Source Discovery *)

\* Array.isArray(v) ? (v[0] || fallback) : (v || fallback)
FieldOr(v, fallback) ==
    IF v.t = "array"
    THEN (IF v.a # <<>> /\ Truthy(v.a[1]) THEN ToStr(v.a[1]) ELSE fallback)
    ELSE IF Truthy(v) THEN ToStr(v) ELSE fallback

Source(i, record) ==
    [ id |-> i,
      title |-> FieldOr(Get(record, "title"), "Unknown Title"),
      creator |-> FieldOr(Get(record, "creator"), "Unknown Author"),
      date |-> FieldOr(Get(record, "date"), "Unknown Date"),
      type |-> FieldOr(Get(record, "type"), "Unknown Type"),
      language |-> FieldOr(Get(record, "language"), "Unknown Language"),
      url |-> ToStr(OrElse(Get(record, "gallica_url"), JStr(""))),
      citation |-> formatCitation(record),
      thumbnail |-> "" ]

\* a searchSources that always issues the supplementary subject search
NeedsSubjectSearch_Always(sourceCount, primary) == TRUE

\* whether searchSources issues the supplementary subject search
NeedsSubjectSearch(sourceCount, primary) == Len(primary.records) < sourceCount

\* searchSources(topic, sourceCount), given the results of its two searches
searchSources(topic, sourceCount, primary, subject) ==
    LET allRecords == IF NeedsSubjectSearch(sourceCount, primary)
                      THEN primary.records \o subject.records
                      ELSE primary.records
        recordsToProcess == SliceTo(allRecords, sourceCount)
    IN [i \in 1..Len(recordsToProcess) |-> Source(i, recordsToProcess[i])]

\* the queries searchSources sends after the primary search has answered
SubjectQueries(topic, sourceCount, primary) ==
    IF NeedsSubjectSearch(sourceCount, primary)
    THEN << Query("searchBySubject", "dc.subject all " \o topic,
                  sourceCount - Len(primary.records)) >>
    ELSE <<>>

-----------------------------------------------------------------------------
(* Graphics Discovery *)

\* keywords[0] || topic
MainKeyword(topic) == IF FirstToken(topic) # "" THEN FirstToken(topic) ELSE topic

ImageQuery(term) == "gallica all \"" \o term \o "\" and dc.type all \"image\""
MapQuery(term) == "gallica all \"" \o term \o "\" and dc.type all \"carte\""
GeneralQuery(term) ==
    "gallica all \"" \o term
    \o "\" and (dc.type all \"image\" or dc.type all \"carte\" or dc.type all \"estampe\")"

\* !r.records || r.records.length === 0
NoRecords(r) == Len(r.records) = 0

\* r = [img1, img2, map1, map2, general]: the results of the five layered queries
ImageResults(r) ==
    LET layered == IF NoRecords(r.img1) THEN r.img2 ELSE r.img1
        maps == IF NoRecords(r.map1) THEN r.map2 ELSE r.map1
    IN IF NoRecords(layered) /\ NoRecords(maps) THEN r.general ELSE layered

MapResults(r) == IF NoRecords(r.map1) THEN r.map2 ELSE r.map1

\* a discovery that sends all five queries whatever the answers
GraphicsQueries_AllLayers(topic, count, r) ==
    << Query("advancedSearch", ImageQuery(MainKeyword(topic)), count),
       Query("advancedSearch", ImageQuery(topic), count),
       Query("advancedSearch", MapQuery(MainKeyword(topic)), count),
       Query("advancedSearch", MapQuery(topic), count),
       Query("advancedSearch", GeneralQuery(MainKeyword(topic)), count) >>

\* the queries searchGraphics sends, in order
GraphicsQueries(topic, count, r) ==
    << Query("advancedSearch", ImageQuery(MainKeyword(topic)), count) >>
    \o (IF NoRecords(r.img1)
        THEN << Query("advancedSearch", ImageQuery(topic), count) >> ELSE <<>>)
    \o << Query("advancedSearch", MapQuery(MainKeyword(topic)), count) >>
    \o (IF NoRecords(r.map1)
        THEN << Query("advancedSearch", MapQuery(topic), count) >> ELSE <<>>)
    \o (IF NoRecords(IF NoRecords(r.img1) THEN r.img2 ELSE r.img1) /\ NoRecords(MapResults(r))
        THEN << Query("advancedSearch", GeneralQuery(MainKeyword(topic)), count) >>
        ELSE <<>>)

Graphic(i, record, topic, kind, label, untitled) ==
    LET cleanUrl == RemoveFirst(ToStr(OrElse(Get(record, "gallica_url"), JStr(""))),
                                "/thumbnail")
        arkId == ArkCapture(cleanUrl)
        title == FieldOr(Get(record, "title"), untitled)
    IN [ id |-> i,
         title |-> title,
         description |-> label \o " related to " \o topic \o ": " \o title,
         type |-> kind,
         url |-> cleanUrl,
         thumbnail |-> IF arkId # "" THEN "https://gallica.bnf.fr/ark:" \o arkId \o "/thumbnail"
                       ELSE "" ]

GALLICA_LOGO == "https://gallica.bnf.fr/themes/gallica2015/images/logo-gallica.png"

\* a placeholder list without the map
PlaceholderGraphics_ImageOnly(topic) ==
    << [ id |-> 1,
         title |-> "Illustration related to " \o topic,
         description |-> "Illustration related to " \o topic,
         type |-> "image",
         url |-> "https://gallica.bnf.fr/",
         thumbnail |-> GALLICA_LOGO ] >>

PlaceholderGraphics(topic) ==
    << [ id |-> 1,
         title |-> "Illustration related to " \o topic,
         description |-> "Illustration related to " \o topic,
         type |-> "image",
         url |-> "https://gallica.bnf.fr/",
         thumbnail |-> GALLICA_LOGO ],
       [ id |-> 2,
         title |-> "Map related to " \o topic,
         description |-> "Map related to " \o topic,
         type |-> "map",
         url |-> "https://gallica.bnf.fr/",
         thumbnail |-> GALLICA_LOGO ] >>

\* a discovery that returns all it found
searchGraphics_NoSlice(topic, count, r) ==
    LET images == ImageResults(r).records
        maps == MapResults(r).records
        graphics ==
            [i \in 1..Len(images) |->
                Graphic(i, images[i], topic, "image", "Image", "Untitled Image")]
            \o [i \in 1..Len(maps) |->
                Graphic(Len(images) + i, maps[i], topic, "map", "Map", "Untitled Map")]
    IN IF Len(graphics) = 0 THEN PlaceholderGraphics(topic) ELSE graphics

\* searchGraphics(topic, count), given the results of its layered queries
searchGraphics(topic, count, r) ==
    LET images == ImageResults(r).records
        maps == MapResults(r).records
        graphics ==
            [i \in 1..Len(images) |->
                Graphic(i, images[i], topic, "image", "Image", "Untitled Image")]
            \o [i \in 1..Len(maps) |->
                Graphic(Len(images) + i, maps[i], topic, "map", "Map", "Untitled Map")]
    IN SliceTo(IF Len(graphics) = 0 THEN PlaceholderGraphics(topic) ELSE graphics, count)

\* imageResults.records.length and mapResults.records.length after each
\* awaited query, in the order of the queries
GraphicsFound(r) ==
    << Len(r.img1.records) >>
    \o (IF NoRecords(r.img1) THEN << Len(r.img2.records) >> ELSE <<>>)
    \o << Len(r.map1.records) >>
    \o (IF NoRecords(r.map1) THEN << Len(r.map2.records) >> ELSE <<>>)
    \o (IF NoRecords(IF NoRecords(r.img1) THEN r.img2 ELSE r.img1) /\ NoRecords(MapResults(r))
        THEN << Len(r.general.records) >> ELSE <<>>)

\* results of queries that searchGraphics does not send are not drawn
GraphicsResultsOf(counts) ==
    { r \in [ img1 : SearchResultsOf("image", counts), img2 : SearchResultsOf("image", counts),
              map1 : SearchResultsOf("carte", counts), map2 : SearchResultsOf("carte", counts),
              general : SearchResultsOf("estampe", counts) ] :
        /\ ~NoRecords(r.img1) => r.img2 = OkResult("image", 0)
        /\ ~NoRecords(r.map1) => r.map2 = OkResult("carte", 0)
        /\ ~(NoRecords(r.img1) /\ NoRecords(r.img2) /\ NoRecords(r.map1) /\ NoRecords(r.map2))
              => r.general = OkResult("estampe", 0) }

GraphicsResults == GraphicsResultsOf(0..MaxRecords)

-----------------------------------------------------------------------------
(* Sequential Report State Machine *)

\* the state built by the constructor
InitialState ==
    [ topic |-> JNull,
      page_count |-> DEFAULT_PAGE_COUNT,
      source_count |-> DEFAULT_SOURCE_COUNT,
      sources |-> <<>>,
      report_sections |-> <<>>,
      plan |-> JNull,
      current_step |-> 0,
      include_graphics |-> FALSE,
      graphics |-> <<>> ]

Resolved(isError, payload) == [outcome |-> "resolved", isError |-> isError, payload |-> payload]
Rejected(msg) == [outcome |-> "rejected", error |-> msg]
NoResult == [outcome |-> "none"]

\* a processSection whose validation error escapes the try block
CatchResult_Rethrow(msg) == Rejected(msg)

\* the catch block of processSection
CatchResult(msg) == Resolved(TRUE, [error |-> msg, status |-> "failed"])

\* an initialization branch that forgets to clear report_sections
InitializedState_KeepSections(data) ==
    LET pageCount == OrElse(Get(data, "page_count"), JNum(DEFAULT_PAGE_COUNT)).n
    IN [ topic |-> data.topic,
         page_count |-> pageCount,
         source_count |-> OrElse(Get(data, "source_count"), JNum(DEFAULT_SOURCE_COUNT)).n,
         include_graphics |-> Truthy(Get(data, "include_graphics")),
         sources |-> <<>>,
         graphics |-> <<>>,
         report_sections |-> state.report_sections,
         current_step |-> 0,
         plan |-> createPlan(data.topic.s, pageCount) ]

\* an initialization branch that forgets to reset current_step
InitializedState_KeepStep(data) ==
    LET pageCount == OrElse(Get(data, "page_count"), JNum(DEFAULT_PAGE_COUNT)).n
    IN [ topic |-> data.topic,
         page_count |-> pageCount,
         source_count |-> OrElse(Get(data, "source_count"), JNum(DEFAULT_SOURCE_COUNT)).n,
         include_graphics |-> Truthy(Get(data, "include_graphics")),
         sources |-> <<>>,
         graphics |-> <<>>,
         report_sections |-> <<>>,
         current_step |-> state.current_step,
         plan |-> createPlan(data.topic.s, pageCount) ]

\* the state written by the initialization branch
InitializedState(data) ==
    LET pageCount == OrElse(Get(data, "page_count"), JNum(DEFAULT_PAGE_COUNT)).n
    IN [ topic |-> data.topic,
         page_count |-> pageCount,
         source_count |-> OrElse(Get(data, "source_count"), JNum(DEFAULT_SOURCE_COUNT)).n,
         include_graphics |-> Truthy(Get(data, "include_graphics")),
         sources |-> <<>>,
         graphics |-> <<>>,
         report_sections |-> <<>>,
         current_step |-> 0,
         plan |-> createPlan(data.topic.s, pageCount) ]

InitializeResult(st) ==
    Resolved(FALSE,
        [ topic |-> st.topic.s,
          pageCount |-> st.page_count,
          sourceCount |-> st.source_count,
          includeGraphics |-> st.include_graphics,
          plan |-> st.plan,
          nextStep |-> "Search for sources using natural_language_search or search_by_subject" ])

\* a search branch without the topic precondition
TopicMissing_Never == FALSE

\* if (!this.state.topic)
TopicMissing == ~Truthy(state.topic)

NoTopicResult ==
    Resolved(TRUE, [text |-> "Error: No topic specified. Please initialize with a topic first."])

SearchResult(st) ==
    Resolved(FALSE,
        [ sources |-> st.sources,
          graphics |-> IF st.include_graphics THEN st.graphics ELSE <<>>,
          nextStep |-> "Create bibliography section" ])

\* a search branch that starts the report afresh when it completes
CompletedSearch_NewReport(st) == [st EXCEPT !.current_step = 1, !.report_sections = <<>>]

\* this.state.current_step = 1
CompletedSearch(st) == [st EXCEPT !.current_step = 1]

\* a search branch that searches graphics for every report
GraphicsRequested_Always(st) == TRUE

\* if (this.state.include_graphics)
GraphicsRequested(st) == st.include_graphics

\* merging the found sources into the stored ones
AssignSources_Merge(stored, found) == stored \o found

\* this.state.sources = await this.searchSources(...): the result replaces the list
AssignSources(stored, found) == found

\* this.state.graphics = await this.searchGraphics(...)
AssignGraphics(stored, found) == found

\* an append branch that stores total_sections as it was passed
Widened_Never(validatedInput) == validatedInput

\* if (section_number > total_sections) total_sections = section_number
Widened(validatedInput) ==
    IF validatedInput.section_number > validatedInput.total_sections
    THEN [validatedInput EXCEPT !.total_sections = validatedInput.section_number]
    ELSE validatedInput

\* unshift instead of push
PushSection_Prepend(sections, validatedInput) == << validatedInput >> \o sections

\* this.state.report_sections.push(validatedInput)
PushSection(sections, validatedInput) == Append(sections, validatedInput)

\* an append branch that re-plans when the section lies beyond the plan
PlanAfterAppend_Replan(plan, validatedInput) ==
    IF plan = JNull THEN plan
    ELSE [plan EXCEPT !.current_section = validatedInput.section_number,
                      !.total_sections =
                          IF validatedInput.total_sections > @
                          THEN validatedInput.total_sections ELSE @]

\* this.state.plan.current_section = section_number
PlanAfterAppend(plan, validatedInput) ==
    IF plan = JNull THEN plan
    ELSE [plan EXCEPT !.current_section = validatedInput.section_number]

\* the title of the section just appended instead of the one that follows
NextSectionTitle_Same(plan, sectionIndex) ==
    IF sectionIndex + 1 \in 1..Len(plan.sections) /\ plan.sections[sectionIndex + 1].title # ""
    THEN plan.sections[sectionIndex + 1].title
    ELSE "Next Section"

\* plan.sections[sectionIndex + 1]?.title || 'Next Section' (0-based index)
NextSectionTitle(plan, sectionIndex) ==
    IF sectionIndex + 2 \in 1..Len(plan.sections) /\ plan.sections[sectionIndex + 2].title # ""
    THEN plan.sections[sectionIndex + 2].title
    ELSE "Next Section"

\* a nextStep that follows the plan alone
NextStepHint_PlanOnly(plan, validatedInput) ==
    LET sectionIndex == validatedInput.section_number - 1
    IN IF plan = JNull THEN "Continue writing the report"
       ELSE IF sectionIndex < Len(plan.sections)
       THEN "Create section " \o NumToStr(validatedInput.section_number + 1)
            \o ": " \o NextSectionTitle(plan, sectionIndex)
       ELSE "Report complete"

NextStepHint(plan, validatedInput) ==
    LET sectionIndex == validatedInput.section_number - 1
        planned == IF plan = JNull THEN "Continue writing the report"
                   ELSE IF sectionIndex < Len(plan.sections)
                   THEN "Create section " \o NumToStr(validatedInput.section_number + 1)
                        \o ": " \o NextSectionTitle(plan, sectionIndex)
                   ELSE "Report complete"
    IN IF ~validatedInput.next_section_needed THEN "Report complete" ELSE planned

\* ((count / total) * 100).toFixed(1) + '%'
Progress(count, total) ==
    IF total = 0 THEN "Infinity%"
    ELSE LET neg == total < 0
             t == IF neg THEN 0 - total ELSE total
             tenths == (count * 2000 + t) \div (2 * t)
         IN (IF neg THEN "-" ELSE "")
            \o NumToStr(tenths \div 10) \o "." \o NumToStr(tenths % 10) \o "%"

AppendResult(st, validatedInput) ==
    Resolved(FALSE,
        [ sectionNumber |-> validatedInput.section_number,
          totalSections |-> validatedInput.total_sections,
          nextSectionNeeded |-> validatedInput.next_section_needed,
          progress |-> Progress(Len(st.report_sections), validatedInput.total_sections),
          reportSectionsCount |-> Len(st.report_sections),
          nextStep |-> NextStepHint(st.plan, validatedInput),
          sources |-> IF validatedInput.is_bibliography THEN JArr(st.sources) ELSE JUndef ])

-----------------------------------------------------------------------------
(* Inputs and client sessions *)

Sessions == {"s1", "s2"}

NoFields == [k \in {} |-> JUndef]

InitInputs ==
    { JObj([topic |-> JStr("X")]),
      JObj([topic |-> JStr("Y"), page_count |-> JNum(1), source_count |-> JStr("1"),
            include_graphics |-> JBool(TRUE)]) }

SearchInputs == { JObj([search_sources |-> JBool(TRUE)]) }

SectionInputs ==
    { JObj([section_number |-> JNum(1), total_sections |-> JNum(2),
            title |-> JStr("Bibliography"), content |-> JStr("b"),
            is_bibliography |-> JBool(TRUE), sources_used |-> JArr(<< JNum(1) >>),
            next_section_needed |-> JBool(TRUE)]),
      JObj([section_number |-> JStr("3"), total_sections |-> JNum(2)]) }

MoreSectionInputs ==
    { JObj([section_number |-> JNum(2), total_sections |-> JStr("2"),
            content |-> JNull, next_section_needed |-> JBool(FALSE)]) }

InvalidInputs == { JNull, JObj(NoFields) }

MoreInvalidInputs ==
    { JNum(7),
      JObj([search_sources |-> JBool(FALSE), section_number |-> JNum(1)]),
      JObj([section_number |-> JStr("1a"), total_sections |-> JNum(2)]),
      JObj([section_number |-> JNum(1), total_sections |-> JBool(TRUE)]),
      JObj([section_number |-> JNum(1), total_sections |-> JNum(2), content |-> JNum(5)]),
      JObj([section_number |-> JNum(1), total_sections |-> JNum(2),
            sources_used |-> JStr("1")]) }

\* the inputs of the overlapping-calls specification
Inputs == InitInputs \cup SearchInputs \cup SectionInputs \cup InvalidInputs

\* the inputs of the one-call-at-a-time specification
WideInputs == Inputs \cup MoreSectionInputs \cup MoreInvalidInputs

\* the initialization inputs of the plan-builder specification
PlanInputs ==
    { JObj([topic |-> JStr(t), page_count |-> JNum(p), source_count |-> c]) :
        t \in {"X", "Y"}, p \in 1..MaxPlanPages, c \in {JNum(1), JNum(2), JStr("3"), JNull} }
    \cup { JObj([topic |-> JStr(t), page_count |-> JNum(p), include_graphics |-> JBool(TRUE)]) :
        t \in {"X", "Y"}, p \in 1..MaxPlanPages }

\* the inputs of the two-session specification
SessionInputs ==
    InitInputs \cup SearchInputs
    \cup { JNull, JObj([section_number |-> JStr("3"), total_sections |-> JNum(2)]) }

\* initializations whose counts are zero, negative or not numeric
CountInputs ==
    { JObj([topic |-> JStr("X"), page_count |-> JNum(0), source_count |-> JNum(0)]),
      JObj([topic |-> JStr("X"), page_count |-> JNum(0 - 3), source_count |-> JNum(0 - 2)]),
      JObj([topic |-> JStr("Y"), page_count |-> JStr("abc"), source_count |-> JNull]) }

\* append-section calls whose numbers are zero, negative or signed strings
NumberInputs ==
    { JObj([section_number |-> JNum(0), total_sections |-> JNum(2)]),
      JObj([section_number |-> JNum(2), total_sections |-> JNum(0 - 1)]),
      JObj([section_number |-> JStr("-1"), total_sections |-> JNum(2)]) }

\* append-section calls with sources_used of several shapes
SourcesUsedInputs ==
    { JObj([section_number |-> JNum(1), total_sections |-> JNum(2),
            sources_used |-> JArr(<< JStr("a") >>)]),
      JObj([section_number |-> JNum(1), total_sections |-> JNum(2),
            sources_used |-> JNull]),
      JObj([section_number |-> JNum(1), total_sections |-> JNum(2),
            sources_used |-> JStr("1")]) }

\* append-section calls that end the report: below, at and above the last
\* section of the one-page plan
FinalInputs ==
    { JObj([section_number |-> JNum(2), total_sections |-> JStr("2"),
            content |-> JNull, next_section_needed |-> JBool(FALSE)]),
      JObj([section_number |-> JNum(4), total_sections |-> JNum(4),
            next_section_needed |-> JBool(FALSE)]),
      JObj([section_number |-> JNum(5), total_sections |-> JNum(4),
            next_section_needed |-> JBool(FALSE)]) }

\* the inputs of the validation specification
ValidationInputs ==
    InitInputs \cup CountInputs \cup NumberInputs \cup SourcesUsedInputs \cup FinalInputs

\* inputs that carry the fields of several kinds of call, or of none
MixedInputs ==
    { JObj([topic |-> JStr("X"), search_sources |-> JBool(TRUE),
            section_number |-> JNum(1), total_sections |-> JNum(2)]),
      JObj([search_sources |-> JBool(TRUE),
            section_number |-> JNum(1), total_sections |-> JNum(2)]),
      JObj([search_sources |-> JBool(FALSE),
            section_number |-> JNum(5), total_sections |-> JNum(6)]),
      JObj([search_sources |-> JBool(FALSE)]),
      JObj([section_number |-> JNum(1)]) }

\* the inputs of the graphics specification: reports with graphics whose
\* topic has one word or two
GraphicsInputs ==
    { JObj([topic |-> JStr("Y Z"), include_graphics |-> JBool(TRUE)]),
      JObj([topic |-> JStr("Y"), page_count |-> JNum(1), source_count |-> JStr("1"),
            include_graphics |-> JBool(TRUE)]),
      JObj([search_sources |-> JBool(TRUE)]) }

\* the inputs of the dispatch specification
DispatchInputs == InitInputs \cup SearchInputs \cup InvalidInputs \cup MixedInputs

\* the inputs of the outline specification: sections 1..MaxSectionNumber of
\* a report announced with four sections, and the only section of a report
\* announced with one; next_section_needed is absent, that is true
OutlineInputs ==
    { JObj([section_number |-> JNum(n), total_sections |-> JNum(4)]) :
        n \in 1..MaxSectionNumber }
    \cup { JObj([section_number |-> JNum(1), total_sections |-> JNum(1)]) }

\* the inputs of the topics specification: initializations whose topic is a
\* word, two words or the empty string, and the search step
TopicInputs ==
    InitInputs \cup SearchInputs
    \cup { JObj([topic |-> JStr("")]),
           JObj([topic |-> JStr(""), source_count |-> JNum(2)]),
           JObj([topic |-> JStr("Y Z"), include_graphics |-> JBool(TRUE)]) }

AllInputs ==
    WideInputs \cup PlanInputs \cup ValidationInputs \cup DispatchInputs \cup GraphicsInputs
    \cup OutlineInputs \cup TopicInputs

\* validateSectionData is a pure function of its argument: evaluated once per input
Validated == [inputData \in AllInputs |-> validateSectionData(inputData)]

-----------------------------------------------------------------------------
(* Steps of processSection *)

Call(s, inputData) == [kind |-> "call", session |-> s, input |-> inputData]
Resume(s) == [kind |-> "resume", session |-> s, input |-> JUndef]

Suspended(pc, s, topic, count) == [pc |-> pc, session |-> s, topic |-> topic, count |-> count]

RemoveAt(q, i) == SubSeq(q, 1, i - 1) \o SubSeq(q, i + 1, Len(q))

\* validateSectionData throws: the catch block answers, nothing is written
ProcessInvalid(s, inputData) ==
    LET v == Validated[inputData]
    IN /\ v.threw
       /\ result' = CatchResult(v.error)
       /\ sent' = <<>>
       /\ step' = Call(s, inputData)
       /\ recordCounts' = <<>>
       /\ UNCHANGED <<state, inflight, owner, discoveredFor, http, transports>>

\* input carries topic: (re)initialize
ProcessInitialize(s, inputData) ==
    LET v == Validated[inputData]
    IN /\ ~v.threw
       /\ Has(v.data, "topic")
       /\ state' = InitializedState(v.data)
       /\ result' = InitializeResult(state')
       /\ sent' = <<>>
       /\ step' = Call(s, inputData)
       /\ recordCounts' = <<>>
       /\ owner' = s
       /\ discoveredFor' = JNull
       /\ UNCHANGED <<inflight, http, transports>>

\* search_sources without a topic: the precondition error
ProcessSearchRejected(s, inputData) ==
    LET v == Validated[inputData]
    IN /\ ~v.threw
       /\ ~Has(v.data, "topic")
       /\ Has(v.data, "search_sources")
       /\ TopicMissing
       /\ result' = NoTopicResult
       /\ sent' = <<>>
       /\ step' = Call(s, inputData)
       /\ recordCounts' = <<>>
       /\ UNCHANGED <<state, inflight, owner, discoveredFor, http, transports>>

\* search_sources with a topic: searchSources sends the primary query and the
\* call is suspended at its await
ProcessSearchBegin(s, inputData) ==
    LET v == Validated[inputData]
    IN /\ ~v.threw
       /\ ~Has(v.data, "topic")
       /\ Has(v.data, "search_sources")
       /\ ~TopicMissing
       /\ Len(inflight) < MaxInflight
       /\ inflight' = Append(inflight,
                             Suspended("sources", s, ToStr(state.topic), state.source_count))
       /\ sent' = << Query("naturalLanguageSearch",
                           "gallica all \"" \o ToStr(state.topic) \o "\"",
                           state.source_count) >>
       /\ step' = Call(s, inputData)
       /\ recordCounts' = <<>>
       /\ UNCHANGED <<state, result, owner, discoveredFor, http, transports>>

\* this.state.sources = await this.searchSources(...), then either the call of
\* searchGraphics (suspended again) or the end of the search step
\* (the natural-language search answers with one of primaries)
SearchSourcesAnswered(i, primaries) ==
    LET c == inflight[i]
    IN /\ c.pc = "sources"
       /\ \E primary \in primaries, subject \in SearchResults("periodique") :
            LET stored == [state EXCEPT
                             !.sources = AssignSources(@,
                                 searchSources(c.topic, c.count, primary, subject))]
            IN /\ ~NeedsSubjectSearch(c.count, primary) => subject = OkResult("periodique", 0)
               /\ sent' = SubjectQueries(c.topic, c.count, primary)
               /\ IF GraphicsRequested(state)
                  THEN /\ state' = stored
                       /\ inflight' = [inflight EXCEPT ![i] =
                              Suspended("graphics", c.session, ToStr(state.topic), GRAPHICS_COUNT)]
                       /\ UNCHANGED result
                  ELSE /\ state' = CompletedSearch(stored)
                       /\ inflight' = RemoveAt(inflight, i)
                       /\ result' = SearchResult(state')
       /\ step' = Resume(c.session)
       /\ recordCounts' = <<>>
       /\ discoveredFor' = JStr(c.topic)
       /\ UNCHANGED <<owner, http, transports>>

SearchSourcesDone(i) == SearchSourcesAnswered(i, SearchResults("monographie"))

\* this.state.graphics = await this.searchGraphics(...), current_step = 1, return
\* (the layered queries answer with one of answers)
SearchGraphicsAnswered(i, answers) ==
    LET c == inflight[i]
    IN /\ c.pc = "graphics"
       /\ \E r \in answers :
            /\ state' = CompletedSearch([state EXCEPT
                            !.graphics = AssignGraphics(@, searchGraphics(c.topic, c.count, r))])
            /\ sent' = GraphicsQueries(c.topic, c.count, r)
            /\ recordCounts' = GraphicsFound(r)
       /\ inflight' = RemoveAt(inflight, i)
       /\ result' = SearchResult(state')
       /\ step' = Resume(c.session)
       /\ UNCHANGED <<owner, discoveredFor, http, transports>>

SearchGraphicsDone(i) == SearchGraphicsAnswered(i, GraphicsResults)

\* section data: append the section and report progress
ProcessAppend(s, inputData) ==
    LET v == Validated[inputData]
    IN /\ ~v.threw
       /\ ~Has(v.data, "topic")
       /\ ~Has(v.data, "search_sources")
       /\ Len(state.report_sections) < MaxSections
       /\ LET validatedInput == Widened(v.data)
          IN /\ state' = [state EXCEPT
                            !.report_sections = PushSection(@, validatedInput),
                            !.plan = PlanAfterAppend(@, validatedInput)]
             /\ result' = AppendResult(state', validatedInput)
       /\ sent' = <<>>
       /\ step' = Call(s, inputData)
       /\ recordCounts' = <<>>
       /\ UNCHANGED <<inflight, owner, discoveredFor, http, transports>>

-----------------------------------------------------------------------------
(* Specification: one client session whose calls may overlap at the awaits *)

Init ==
    /\ state = InitialState
    /\ inflight = <<>>
    /\ result = NoResult
    /\ sent = <<>>
    /\ recordCounts = <<>>
    /\ step = [kind |-> "none", session |-> "s1", input |-> JUndef]
    /\ owner = "none"
    /\ discoveredFor = JNull
    /\ http = HttpIdle
    /\ transports = NoTransports

Next ==
    \/ \E inputData \in Inputs : ProcessInvalid("s1", inputData)
    \/ \E inputData \in Inputs : ProcessInitialize("s1", inputData)
    \/ \E inputData \in Inputs : ProcessSearchRejected("s1", inputData)
    \/ \E inputData \in Inputs : ProcessSearchBegin("s1", inputData)
    \/ \E i \in 1..Len(inflight) : SearchSourcesDone(i)
    \/ \E i \in 1..Len(inflight) : SearchGraphicsDone(i)
    \/ \E inputData \in Inputs : ProcessAppend("s1", inputData)

Spec == Init /\ [][Next]_vars

-----------------------------------------------------------------------------
(* Specification: one client session that issues one call at a time, over   *)
(* the wide input set                                                       *)

Idle == inflight = <<>>

NextSequential ==
    \/ Idle /\ \E inputData \in WideInputs : ProcessInvalid("s1", inputData)
    \/ Idle /\ \E inputData \in WideInputs : ProcessInitialize("s1", inputData)
    \/ Idle /\ \E inputData \in WideInputs : ProcessSearchRejected("s1", inputData)
    \/ Idle /\ \E inputData \in WideInputs : ProcessSearchBegin("s1", inputData)
    \/ \E i \in 1..Len(inflight) : SearchSourcesDone(i)
    \/ \E i \in 1..Len(inflight) : SearchGraphicsDone(i)
    \/ Idle /\ \E inputData \in WideInputs : ProcessAppend("s1", inputData)

SpecSequential == Init /\ [][NextSequential]_vars

-----------------------------------------------------------------------------
(* Specification: two client sessions served by the one server instance     *)

NextSessions ==
    \/ \E s \in Sessions, inputData \in SessionInputs : ProcessInvalid(s, inputData)
    \/ \E s \in Sessions, inputData \in SessionInputs : ProcessInitialize(s, inputData)
    \/ \E s \in Sessions, inputData \in SessionInputs : ProcessSearchRejected(s, inputData)
    \/ \E s \in Sessions, inputData \in SessionInputs : ProcessSearchBegin(s, inputData)
    \/ \E i \in 1..Len(inflight) : SearchSourcesDone(i)
    \/ \E i \in 1..Len(inflight) : SearchGraphicsDone(i)
    \/ \E s \in Sessions, inputData \in SessionInputs : ProcessAppend(s, inputData)

SpecSessions == Init /\ [][NextSessions]_vars

-----------------------------------------------------------------------------
(* Specification: the plan builder over the page counts 1..MaxPlanPages     *)

NextPlan == \E inputData \in PlanInputs : ProcessInitialize("s1", inputData)

SpecPlan == Init /\ [][NextPlan]_vars

-----------------------------------------------------------------------------
(* Specification: initialization and append-section calls over the inputs   *)
(* that probe validateSectionData                                           *)

NextValidation ==
    \/ \E inputData \in ValidationInputs : ProcessInvalid("s1", inputData)
    \/ \E inputData \in ValidationInputs : ProcessInitialize("s1", inputData)
    \/ \E inputData \in ValidationInputs : ProcessAppend("s1", inputData)

SpecValidation == Init /\ [][NextValidation]_vars

-----------------------------------------------------------------------------
(* Specification: a degraded Search Service, whose natural-language search  *)
(* fails and whose graphics queries find nothing; one call at a time        *)

\* every layered graphics query returns zero records
NoGraphicsResults ==
    { r \in GraphicsResults :
        /\ NoRecords(r.img1) /\ NoRecords(r.img2)
        /\ NoRecords(r.map1) /\ NoRecords(r.map2)
        /\ NoRecords(r.general) }

NextDegraded ==
    \/ Idle /\ \E inputData \in SessionInputs : ProcessInvalid("s1", inputData)
    \/ Idle /\ \E inputData \in SessionInputs : ProcessInitialize("s1", inputData)
    \/ Idle /\ \E inputData \in SessionInputs : ProcessSearchRejected("s1", inputData)
    \/ Idle /\ \E inputData \in SessionInputs : ProcessSearchBegin("s1", inputData)
    \/ \E i \in 1..Len(inflight) : SearchSourcesAnswered(i, {ErrorResult})
    \/ \E i \in 1..Len(inflight) : SearchGraphicsAnswered(i, NoGraphicsResults)
    \/ Idle /\ \E inputData \in SessionInputs : ProcessAppend("s1", inputData)

SpecDegraded == Init /\ [][NextDegraded]_vars

-----------------------------------------------------------------------------
(* Specification: calls that arrive through the sequential_reporting tool   *)
(* handler, one at a time                                                   *)

SchemaStrings == {"topic", "title", "content"}
SchemaPositiveInts == {"page_count", "source_count", "section_number", "total_sections"}
SchemaBooleans == {"search_sources", "is_bibliography", "next_section_needed",
                   "include_graphics"}
SchemaKeys == SchemaStrings \cup SchemaPositiveInts \cup SchemaBooleans \cup {"sources_used"}

\* one field of the z.object schema; every field is optional
FieldAccepted(k, v) ==
    \/ v.t = "undefined"
    \/ k \in SchemaStrings /\ v.t = "string"
    \/ k \in SchemaPositiveInts /\ v.t = "number" /\ v.n > 0
    \/ k \in SchemaBooleans /\ v.t = "boolean"
    \/ k = "sources_used" /\ v.t = "array" /\ \A i \in 1..Len(v.a) : v.a[i].t = "number"

\* schema.parse(args) does not throw
SchemaAccepts(args) ==
    /\ args.t = "object"
    /\ \A k \in DOMAIN args.f \cap SchemaKeys : FieldAccepted(k, args.f[k])

\* the value of schema.parse(args): unknown keys are stripped
Parsed(args) == JObj([k \in DOMAIN args.f \cap SchemaKeys |-> args.f[k]])

ToolInputs ==
    Inputs \cup SourcesUsedInputs
    \cup { JObj([topic |-> JStr("Y"), page_count |-> JNum(1),
                 include_graphics |-> JBool(TRUE)]),
           JObj([topic |-> JStr("X"), verbose |-> JBool(TRUE)]) }

\* schema.parse(args) throws a ZodError: the handler rejects, and the
\* tools/call request handler logs the error and throws it again
ToolRejected(s, args) ==
    /\ ~SchemaAccepts(args)
    /\ result' = Rejected("ZodError")
    /\ sent' = <<>>
    /\ step' = [kind |-> "tool", session |-> s, input |-> args]
    /\ recordCounts' = <<>>
    /\ UNCHANGED <<state, inflight, owner, discoveredFor, http, transports>>

NextTool ==
    \/ Idle /\ \E args \in ToolInputs : ToolRejected("s1", args)
    \/ Idle /\ \E args \in ToolInputs :
                  SchemaAccepts(args) /\ ProcessInvalid("s1", Parsed(args))
    \/ Idle /\ \E args \in ToolInputs :
                  SchemaAccepts(args) /\ ProcessInitialize("s1", Parsed(args))
    \/ Idle /\ \E args \in ToolInputs :
                  SchemaAccepts(args) /\ ProcessSearchRejected("s1", Parsed(args))
    \/ Idle /\ \E args \in ToolInputs :
                  SchemaAccepts(args) /\ ProcessSearchBegin("s1", Parsed(args))
    \/ \E i \in 1..Len(inflight) : SearchSourcesDone(i)
    \/ \E i \in 1..Len(inflight) : SearchGraphicsDone(i)
    \/ Idle /\ \E args \in ToolInputs :
                  SchemaAccepts(args) /\ ProcessAppend("s1", Parsed(args))

SpecTool == Init /\ [][NextTool]_vars

-----------------------------------------------------------------------------
(* Specification: HttpClient.get with retries 0..MaxRetries; every request  *)
(* settles (undici times out a request that gets no answer)                 *)

\* get(url, params) up to its first await: the first request is on its way
HttpGet(retries) ==
    /\ http.pc # "loop"
    /\ LoopContinues(0, retries)
    /\ http' = [ pc |-> "loop", retries |-> retries, attempt |-> 0, requests |-> 1,
                 responses |-> <<>>, lastError |-> JUndef, outcome |-> NoCall ]
    /\ UNCHANGED <<state, inflight, result, sent, recordCounts, step, owner, discoveredFor, transports>>

\* the awaited request settles with o: return on 2xx; otherwise remember the
\* error and, after the backoff delay, send the next request, or leave the
\* loop and throw
HttpRequestSettled(o) ==
    /\ http.pc = "loop"
    /\ LET responses == Append(http.responses, o)
           attempt == http.attempt + 1
       IN IF IsSuccess(o)
          THEN http' = [http EXCEPT !.pc = "returned", !.responses = responses,
                                    !.outcome = [kind |-> "returned", status |-> o.status]]
          ELSE IF LoopContinues(attempt, http.retries)
          THEN http' = [http EXCEPT !.responses = responses, !.lastError = o,
                                    !.attempt = attempt, !.requests = @ + 1]
          ELSE http' = [http EXCEPT !.pc = "threw", !.responses = responses,
                                    !.lastError = o, !.attempt = attempt,
                                    !.outcome = Thrown(o)]
    /\ UNCHANGED <<state, inflight, result, sent, recordCounts, step, owner, discoveredFor, transports>>

NextHttp ==
    \/ \E retries \in 0..MaxRetries : HttpGet(retries)
    \/ \E o \in HttpOutcomes : HttpRequestSettled(o)

SpecHttp ==
    Init /\ [][NextHttp]_vars /\ WF_vars(\E o \in HttpOutcomes : HttpRequestSettled(o))

-----------------------------------------------------------------------------
(* Specification: calls of the public SearchAPI methods, one at a time,     *)
(* over an HttpClient with retries 0..MaxRetries                            *)

\* a search that lets the error of the HTTP client escape
search_Rethrow(outcome, body) ==
    IF outcome.kind = "threw"
    THEN Rejected(ErrorMessage(outcome.error))
    ELSE Resolved(FALSE, parseSruResponse(body))

\* search(query, startRecord, maxRecords) once getXml has settled: the try
\* block returns the parsed response, the catch block a result with no
\* records and the message of the error
search(outcome, body) ==
    IF outcome.kind = "threw"
    THEN Resolved(FALSE, SearchFailure(ErrorMessage(outcome.error)))
    ELSE Resolved(FALSE, parseSruResponse(body))

\* a public method builds its query and calls search, which is suspended at
\* await this.httpClient.getXml(...)
SearchCall(method, term, exactMatch, retries) ==
    /\ step.kind # "searching"
    /\ http.pc # "loop"
    /\ LoopContinues(0, retries)
    /\ http' = [ pc |-> "loop", retries |-> retries, attempt |-> 0, requests |-> 1,
                 responses |-> <<>>, lastError |-> JUndef, outcome |-> NoCall ]
    /\ step' = [ kind |-> "searching", session |-> "s1",
                 input |-> JStr(SearchQuery(method, term, exactMatch)), body |-> NoBody ]
    /\ result' = NoResult
    /\ UNCHANGED <<state, inflight, sent, recordCounts, owner, discoveredFor, transports>>

\* getXml has settled: search parses the body, or catches the error
SearchSettled(body) ==
    /\ step.kind = "searching"
    /\ http.pc \in {"returned", "threw"}
    /\ (http.pc = "threw") = (body = NoBody)
    /\ result' = search(http.outcome, body)
    /\ step' = [step EXCEPT !.kind = "searched", !.body = body]
    /\ UNCHANGED <<state, inflight, sent, recordCounts, owner, discoveredFor, http, transports>>

NextSearch ==
    \/ \E method \in SearchMethods, exactMatch \in BOOLEAN, retries \in 0..MaxRetries :
          SearchCall(method, "Y", exactMatch, retries)
    \/ \E o \in HttpOutcomes : HttpRequestSettled(o)
    \/ \E body \in XmlBodies \cup {NoBody} : SearchSettled(body)

SpecSearch == Init /\ [][NextSearch]_vars

-----------------------------------------------------------------------------
(* Specification: the HTTP handler serving GET /message, POST /message and  *)
(* the closing of SSE streams, up to MaxTransports sessions                 *)

HandlerResponse(status, dispatched) ==
    Resolved(status >= 400, [status |-> status, dispatched |-> dispatched])

\* GET /message: server.connect(transport) starts the SSE stream, then the
\* transport is stored under its sessionId and its onclose is set
GetMessage ==
    /\ transports.created < MaxTransports
    /\ LET id == TransportId(transports.created + 1)
       IN /\ transports' = [transports EXCEPT !.created = @ + 1,
                                              !.open = @ \cup {id},
                                              !.active = @ \cup {id}]
          /\ step' = [kind |-> "get", session |-> id, input |-> JNull]
    /\ result' = HandlerResponse(200, "none")
    /\ UNCHANGED <<state, inflight, sent, recordCounts, owner, discoveredFor, http>>

\* the SSE response stream of a session closes: the transport calls onclose
TransportClosed(id) ==
    /\ id \in transports.open
    /\ transports' = [transports EXCEPT !.open = @ \ {id},
                                        !.closed = @ \cup {id},
                                        !.active = AfterClose(@, id)]
    /\ step' = [kind |-> "close", session |-> id, input |-> JNull]
    /\ UNCHANGED <<state, inflight, result, sent, recordCounts, owner, discoveredFor, http>>

\* POST /message with a JSON-RPC tools/call request: without a sessionId the
\* request is handled directly; with one that has no transport the answer is
\* 404; otherwise transport.handlePostMessage takes it, which accepts the
\* message (202) or refuses it (400)
PostMessage(sessionId, accepted) ==
    LET routed == RoutedSessionId(sessionId, transports.active)
    IN /\ result' =
            IF ~Truthy(routed) THEN HandlerResponse(200, "direct")
            ELSE IF routed.s \notin transports.active THEN HandlerResponse(404, "none")
            ELSE IF accepted THEN HandlerResponse(202, routed.s)
            ELSE HandlerResponse(400, "none")
       /\ (~Truthy(routed) \/ routed.s \notin transports.active) => accepted
       /\ step' = [kind |-> "post", session |-> "s1", input |-> sessionId]
       /\ UNCHANGED <<state, inflight, sent, recordCounts, owner, discoveredFor, http,
                      transports>>

NextHandler ==
    \/ GetMessage
    \/ \E id \in transports.open : TransportClosed(id)
    \/ \E sessionId \in SessionIdInputs, accepted \in BOOLEAN : PostMessage(sessionId, accepted)

SpecHandler == Init /\ [][NextHandler]_vars

-----------------------------------------------------------------------------
(* Specification: the sections of a planned report appended in any order    *)

NextOutline ==
    \/ \E inputData \in InitInputs : ProcessInitialize("s1", inputData)
    \/ \E inputData \in OutlineInputs : ProcessAppend("s1", inputData)

SpecOutline == Init /\ [][NextOutline]_vars

-----------------------------------------------------------------------------
(* Specification: initializations with any topic string the call accepts,   *)
(* each followed or not by a search step; one call at a time                *)

NextTopics ==
    \/ Idle /\ \E inputData \in TopicInputs : ProcessInitialize("s1", inputData)
    \/ Idle /\ \E inputData \in TopicInputs : ProcessSearchRejected("s1", inputData)
    \/ Idle /\ \E inputData \in TopicInputs : ProcessSearchBegin("s1", inputData)
    \/ \E i \in 1..Len(inflight) : SearchSourcesDone(i)
    \/ \E i \in 1..Len(inflight) : SearchGraphicsDone(i)

SpecTopics == Init /\ [][NextTopics]_vars

-----------------------------------------------------------------------------
(* Specification: one call at a time over inputs of mixed shapes            *)

NextDispatch ==
    \/ Idle /\ \E inputData \in DispatchInputs : ProcessInvalid("s1", inputData)
    \/ Idle /\ \E inputData \in DispatchInputs : ProcessInitialize("s1", inputData)
    \/ Idle /\ \E inputData \in DispatchInputs : ProcessSearchRejected("s1", inputData)
    \/ Idle /\ \E inputData \in DispatchInputs : ProcessSearchBegin("s1", inputData)
    \/ \E i \in 1..Len(inflight) : SearchSourcesDone(i)
    \/ \E i \in 1..Len(inflight) : SearchGraphicsDone(i)
    \/ Idle /\ \E inputData \in DispatchInputs : ProcessAppend("s1", inputData)

SpecDispatch == Init /\ [][NextDispatch]_vars

-----------------------------------------------------------------------------
(* Specification: reports with graphics, one call at a time; an answer to  *)
(* a graphics query carries no record, one, two or MaxGraphicsRecords       *)

GraphicsCounts == {0, 1, 2, MaxGraphicsRecords}

NextGraphics ==
    \/ Idle /\ \E inputData \in GraphicsInputs : ProcessInitialize("s1", inputData)
    \/ Idle /\ \E inputData \in GraphicsInputs : ProcessSearchRejected("s1", inputData)
    \/ Idle /\ \E inputData \in GraphicsInputs : ProcessSearchBegin("s1", inputData)
    \/ \E i \in 1..Len(inflight) : SearchSourcesDone(i)
    \/ \E i \in 1..Len(inflight) :
          SearchGraphicsAnswered(i, GraphicsResultsOf(GraphicsCounts))

SpecGraphics == Init /\ [][NextGraphics]_vars

-----------------------------------------------------------------------------
(* Specification: the Citation Formatter applied to bibliographic records   *)

\* records as parseSruResponse builds them; JUndef stands for a missing field
CitationRecords ==
    [ title : { JStr("T") },
      creator : { JStr("A"), JArr(<< JStr("A"), JStr("B") >>), JUndef },
      publisher : { JStr("P"), JArr(<< JStr("P"), JStr("Q") >>), JUndef },
      date : { JStr("1900"), JUndef },
      type : { JStr("monographie"), JStr("Monographie imprimee"), JStr("book"),
               JStr("periodique"), JStr("Periodique"), JStr("Article"), JStr("carte"),
               JStr("book article"), JArr(<< JStr("periodique"), JStr("book") >>), JUndef },
      gallica_url : { JStr(GALLICA_ARK \o "bpt6k1") } ]

\* citation: this.formatCitation(result)
FormatCitation(record) ==
    /\ result' = Resolved(FALSE, [citation |-> formatCitation(record)])
    /\ step' = [kind |-> "format", session |-> "s1", input |-> JObj(record)]
    /\ UNCHANGED <<state, inflight, sent, recordCounts, owner, discoveredFor, http, transports>>

NextCitation == \E record \in CitationRecords : FormatCitation(record)

SpecCitation == Init /\ [][NextCitation]_vars

-----------------------------------------------------------------------------
(* Shapes of a call, read off its input *)

IsObject(v) == v.t = "object"

\* the input carries topic
IsInitializeInput(v) == IsObject(v) /\ Has(v.f, "topic")

\* the input carries search_sources = true and no topic
IsSearchInput(v) ==
    IsObject(v) /\ ~Has(v.f, "topic") /\ Truthy(Get(v.f, "search_sources"))

\* neither of the above: an append-section call
IsAppendInput(v) == IsObject(v) /\ ~IsInitializeInput(v) /\ ~IsSearchInput(v)

IsNumeric(v) == TypeOf(v) = "number" \/ (TypeOf(v) = "string" /\ AllDigits(v.s))

\* the validation failures of an append-section call
FailsSectionValidation(f) ==
    \/ ~Has(f, "section_number") \/ ~Has(f, "total_sections")
    \/ ~IsNumeric(Get(f, "section_number"))
    \/ ~IsNumeric(Get(f, "total_sections"))
    \/ Get(f, "content").t \notin {"string", "null", "undefined"}
    \/ Get(f, "sources_used").t \notin {"array", "null", "undefined"}

InitializeStep == step.kind = "call" /\ IsInitializeInput(step.input)
SearchStep == step.kind = "call" /\ IsSearchInput(step.input)
AppendStep == step.kind = "call" /\ IsAppendInput(step.input)

IsErrorResult(r) == r.outcome = "resolved" /\ r.isError

-----------------------------------------------------------------------------
(* Claims *)

\* C1: after a call carrying topic the session is reset whatever it held
\* before: sources, graphics and sections are empty, currentStep is 0, the plan
\* is freshly built with currentSection 0, and topic, the counts and
\* includeGraphics are those of the input alone.
C1_ReinitIsHardReset ==
    InitializeStep =>
        LET f == step.input.f
            pc == Get(f, "page_count")
            sc == Get(f, "source_count")
        IN /\ state.sources = <<>>
           /\ state.graphics = <<>>
           /\ state.report_sections = <<>>
           /\ state.current_step = 0
           /\ state.topic = JStr(ToStr(f.topic))
           /\ state.include_graphics = Truthy(Get(f, "include_graphics"))
           /\ pc.t = "undefined" => state.page_count = DEFAULT_PAGE_COUNT
           /\ pc.t = "number" /\ pc.n # 0 => state.page_count = pc.n
           /\ sc.t = "undefined" => state.source_count = DEFAULT_SOURCE_COUNT
           /\ sc.t = "number" /\ sc.n # 0 => state.source_count = sc.n
           /\ state.plan # JNull
           /\ state.plan.current_section = 0
           /\ state.plan.topic = state.topic.s
           /\ state.plan = createPlan(state.topic.s, state.page_count)
           /\ IsErrorResult(result) = FALSE

\* a re-initialization with another topic while a search step of the earlier
\* topic has already stored its sources
C1_Witness ==
    /\ InitializeStep
    /\ \E i \in 1..Len(inflight) :
          inflight[i].pc = "graphics" /\ inflight[i].topic # state.topic.s

\* C2: a search_sources call while topic is null answers with an error result,
\* leaves the state as it was, suspends nothing and sends no query.
C2_SearchWithoutTopic ==
    [][ (step'.kind = "call" /\ IsSearchInput(step'.input) /\ state.topic = JNull)
            => /\ IsErrorResult(result')
               /\ state' = state
               /\ inflight' = inflight
               /\ sent' = <<>> ]_vars

\* the rejected search in a session that already holds appended sections
C2_Witness ==
    /\ SearchStep
    /\ state.topic = JNull
    /\ IsErrorResult(result)
    /\ state.report_sections # <<>>

\* C3: an append-section call that fails validation answers with an error
\* result of status failed and leaves the whole session state unchanged.
C3_FailedAppendKeepsState ==
    [][ (step'.kind = "call" /\ IsAppendInput(step'.input)
         /\ FailsSectionValidation(step'.input.f))
            => /\ IsErrorResult(result')
               /\ "status" \in DOMAIN result'.payload
               /\ result'.payload.status = "failed"
               /\ state' = state ]_vars

\* a failed append in an initialized session that already holds a section
C3_Witness ==
    /\ AppendStep
    /\ FailsSectionValidation(step.input.f)
    /\ IsErrorResult(result)
    /\ state.topic # JNull
    /\ state.report_sections # <<>>

\* C4: processSection never rejects: every settled call resolved to a result,
\* and a call whose input is not an object resolved to an error result.
C4_NeverRejects ==
    /\ result.outcome # "rejected"
    /\ (step.kind = "call" /\ ~IsObject(step.input)) => IsErrorResult(result)
    /\ (step.kind = "call" /\ IsAppendInput(step.input)
        /\ FailsSectionValidation(step.input.f)) => IsErrorResult(result)

\* a call with null in an initialized session
C4_Witness ==
    /\ step.kind = "call"
    /\ step.input = JNull
    /\ IsErrorResult(result)
    /\ state.topic # JNull

\* C5: between re-initializations every step leaves sections as they are or
\* appends exactly one entry at the end, the latter exactly on a successful
\* append-section call.
C5_SectionsAppendOnly ==
    [][ LET old == state.report_sections
            new == state'.report_sections
        IN IF step'.kind = "call" /\ IsInitializeInput(step'.input) THEN TRUE
           ELSE IF step'.kind = "call" /\ IsAppendInput(step'.input) /\ ~IsErrorResult(result')
           THEN Len(new) = Len(old) + 1 /\ SubSeq(new, 1, Len(old)) = old
           ELSE new = old ]_vars

\* a second, different section has just been appended
C5_Witness ==
    /\ AppendStep
    /\ ~IsErrorResult(result)
    /\ Len(state.report_sections) = 2
    /\ state.report_sections[1] # state.report_sections[2]

\* C6 as stated: once a search step has stored sources (and, when the search
\* step is complete, graphics), no step other than a re-initialization changes
\* them.
C6_PopulatedAtMostOnce ==
    [][ ~(step'.kind = "call" /\ IsInitializeInput(step'.input))
            => /\ discoveredFor # JNull => state'.sources = state.sources
               /\ state.current_step = 1 => state'.graphics = state.graphics ]_vars

\* C6 as amended: outside re-initialization sources and graphics change only
\* when a search step stores them, and what it stores is its own discovery
\* result, numbered 1..n, never the earlier list extended.
C6_ReplacedWholesaleBySearch ==
    [][ ~(step'.kind = "call" /\ IsInitializeInput(step'.input))
            => /\ state'.sources # state.sources
                    => /\ step'.kind = "resume"
                       /\ \A i \in 1..Len(state'.sources) : state'.sources[i].id = i
               /\ state'.graphics # state.graphics
                    => /\ step'.kind = "resume"
                       /\ \A i \in 1..Len(state'.graphics) : state'.graphics[i].id = i ]_vars

\* a repeated search step has stored its sources: the earlier search step of
\* this report was complete and this one awaits its graphics
C6_Witness ==
    /\ step.kind = "resume"
    /\ state.current_step = 1
    /\ state.sources # <<>>
    /\ \E i \in 1..Len(inflight) : inflight[i].pc = "graphics"

\* C7: a call of one session never changes topic, plan, sources or sections
\* of the report that another session initialized.
C7_SessionIsolation ==
    [][ (step'.kind = "call" /\ owner # "none" /\ step'.session # owner)
            => /\ state'.topic = state.topic
               /\ state'.plan = state.plan
               /\ state'.sources = state.sources
               /\ state'.report_sections = state.report_sections ]_vars

\* C8: the stored sources were discovered for the stored topic; a
\* re-initialization is not processed while a search step awaits.
C8_SearchStepAtomic ==
    state.sources # <<>> => discoveredFor = state.topic

PlanTitles(plan) == [i \in 1..Len(plan.sections) |-> plan.sections[i].title]

\* C9: initializing with pageCount 1 gives the plan sections Bibliography,
\* Introduction, Conclusion.
C9_OnePagePlan ==
    (InitializeStep /\ state.page_count = 1)
        => PlanTitles(state.plan) = << "Bibliography", "Introduction", "Conclusion" >>

\* C10: the plan has totalSections = min(2 * pageCount + 1, 20) and its
\* section list has exactly that many entries.
C10_PlanTotalSections ==
    (InitializeStep /\ state.page_count >= 1)
        => /\ state.plan.total_sections = Min(2 * state.page_count + 1, 20)
           /\ Len(state.plan.sections) = Min(2 * state.page_count + 1, 20)

\* C11: for every pageCount >= 1 the plan starts with Bibliography, flagged as
\* bibliography, ends with Conclusion, and flags no other section.
C11_PlanEnds ==
    (InitializeStep /\ state.page_count >= 1)
        => LET sections == state.plan.sections
           IN /\ Len(sections) >= 2
              /\ sections[1] = PlanSection("Bibliography", TRUE)
              /\ sections[Len(sections)].title = "Conclusion"
              /\ \A i \in 2..Len(sections) : ~sections[i].is_bibliography

\* a plan with every fixed section and padded with additional sections
C11_Witness ==
    /\ InitializeStep
    /\ state.page_count >= 10
    /\ \E i \in 1..Len(state.plan.sections) :
          state.plan.sections[i].title = "Additional Analysis 2"
    /\ \E i \in 1..Len(state.plan.sections) :
          state.plan.sections[i].title = "Critical Perspectives"

\* C12: the plan never exceeds 20 sections, in totalSections and in the
\* number of entries of its section list.
C12_PlanCap ==
    state.plan # JNull
        => /\ state.plan.total_sections <= 20
           /\ Len(state.plan.sections) <= 20

\* C13: an append-section call that passes validation does not fail; when its
\* sectionNumber exceeds its totalSections the section is stored, and echoed
\* in the response, with totalSections equal to sectionNumber, otherwise with
\* its totalSections unchanged.
C13_SelfWidening ==
    (AppendStep /\ ~FailsSectionValidation(step.input.f))
        => LET f == step.input.f
               sectionNumber == CoerceNumber(Get(f, "section_number")).n
               totalSections == CoerceNumber(Get(f, "total_sections")).n
               stored == state.report_sections[Len(state.report_sections)]
           IN /\ ~IsErrorResult(result)
              /\ state.report_sections # <<>>
              /\ stored.section_number = sectionNumber
              /\ stored.total_sections =
                     (IF sectionNumber > totalSections THEN sectionNumber ELSE totalSections)
              /\ result.payload.sectionNumber = sectionNumber
              /\ result.payload.totalSections = stored.total_sections

\* section 3 of 2 has been appended to an initialized report
C13_Witness ==
    /\ AppendStep
    /\ ~IsErrorResult(result)
    /\ state.topic # JNull
    /\ step.input.f.section_number = JStr("3")
    /\ step.input.f.total_sections = JNum(2)
    /\ state.report_sections[Len(state.report_sections)].total_sections = 3

\* C14: whenever a section is appended with nextSectionNeeded = false the
\* response's nextStep is "Report complete", whatever the sectionNumber and
\* whether or not a plan exists.
C14_FinalSectionCompletes ==
    (AppendStep /\ ~IsErrorResult(result)
     /\ Get(step.input.f, "next_section_needed") = JBool(FALSE))
        => result.payload.nextStep = "Report complete"

\* the final section is one the plan would have continued after
C14_Witness ==
    /\ AppendStep
    /\ ~IsErrorResult(result)
    /\ Get(step.input.f, "next_section_needed") = JBool(FALSE)
    /\ state.plan # JNull
    /\ result.payload.sectionNumber < Len(state.plan.sections)
    /\ result.payload.nextStep = "Report complete"

C16_GraphicsPlaceholders ==
    (step.kind = "resume" /\ inflight = <<>> /\ state.include_graphics)
        => /\ Len(state.graphics) = 2
           /\ state.graphics[1].id = 1 /\ state.graphics[1].type = "image"
           /\ state.graphics[2].id = 2 /\ state.graphics[2].type = "map"
           /\ result.payload.graphics = state.graphics

\* the graphics discovery has gone through all five layered queries
C16_Witness ==
    /\ step.kind = "resume"
    /\ inflight = <<>>
    /\ state.include_graphics
    /\ Len(sent) = 5
    /\ state.graphics # <<>>

\* C17: when the primary natural-language search fails the search step stores
\* sources = [], and once complete it has set currentStep = 1 and returned a
\* non-error result whose sources list is empty.
C17_FailureYieldsNoSources ==
    step.kind = "resume"
        => /\ state.sources = <<>>
           /\ inflight = <<>>
                => /\ state.current_step = 1
                   /\ ~IsErrorResult(result)
                   /\ result.payload.sources = <<>>

\* a value that is a positive integer, or a digit-only string of one
IsPositiveInteger(v) ==
    LET n == CoerceNumber(v) IN n.t = "number" /\ n.n >= 1

\* C18: an append-section call whose section_number or total_sections is not
\* a positive integer (0, negative, not a number) returns an error result and
\* appends nothing.
C18_PositiveNumbersOnly ==
    [][ (step'.kind = "call" /\ IsAppendInput(step'.input)
         /\ ~(/\ IsPositiveInteger(Get(step'.input.f, "section_number"))
              /\ IsPositiveInteger(Get(step'.input.f, "total_sections"))))
            => /\ IsErrorResult(result')
               /\ state'.report_sections = state.report_sections ]_vars

\* C19: an append-section call whose sources_used is present and is not an
\* array of integers returns an error result and appends nothing; with
\* sources_used absent or null the section is stored with the empty list.
C19_SourcesUsedIntegers ==
    [][ (step'.kind = "call" /\ IsAppendInput(step'.input))
            => LET used == Get(step'.input.f, "sources_used")
               IN IF used.t \in {"undefined", "null"}
                  THEN ~IsErrorResult(result')
                          => state'.report_sections[Len(state'.report_sections)].sources_used
                                = <<>>
                  ELSE IF used.t = "array" /\ \A i \in 1..Len(used.a) : used.a[i].t = "number"
                  THEN TRUE
                  ELSE /\ IsErrorResult(result')
                       /\ state'.report_sections = state.report_sections ]_vars

\* C20: in every reachable state pageCount >= 1 and sourceCount >= 1.
C20_CountsPositive ==
    state.page_count >= 1 /\ state.source_count >= 1

\* the lower-cased type of a record, "" when it has none
RecordType(record) == ToLowerCase(CitationField(Get(record, "type"), ""))

\* the publisher part of a citation
PublisherPart(record) ==
    ". " \o CitationField(Get(record, "publisher"), "Unknown Publisher") \o ". Retrieved from "

\* C21 as stated: the citation omits the publisher exactly when the record's
\* lower-cased type contains periodique or article.
C21_PublisherByType ==
    step.kind = "format"
        => LET record == step.input.f
           IN ~Includes(result.payload.citation, PublisherPart(record))
                 <=> (\/ Includes(RecordType(record), "periodique")
                      \/ Includes(RecordType(record), "article"))

\* C21 as amended: the citation omits the publisher exactly when the
\* lower-cased type contains periodique or article and contains neither
\* monographie nor book; the citation is the same for the same record.
C21_PublisherByTypePriority ==
    step.kind = "format"
        => LET record == step.input.f
           IN /\ ~Includes(result.payload.citation, PublisherPart(record))
                    <=> (/\ \/ Includes(RecordType(record), "periodique")
                            \/ Includes(RecordType(record), "article")
                         /\ ~Includes(RecordType(record), "monographie")
                         /\ ~Includes(RecordType(record), "book"))
              /\ result.payload.citation = formatCitation(record)

\* an article without publisher printed, its type given in capitals
C21_Witness ==
    /\ step.kind = "format"
    /\ step.input.f.type = JStr("Article")
    /\ step.input.f.publisher = JStr("P")
    /\ ~Includes(result.payload.citation, "P. Retrieved")

\* C22: the sequential_reporting tool handler never throws: every call
\* through it settles with a result object.
C22_ToolNeverThrows ==
    result.outcome # "rejected"

\* what holds of a get call at every moment: at most retries + 1 requests,
\* a return on the first 2xx response, a throw of the last error after the
\* final attempt
C23_Attempts ==
    /\ http.requests <= http.retries + 1
    /\ \A i \in 1..(Len(http.responses) - 1) : ~IsSuccess(http.responses[i])
    /\ http.pc = "loop" => http.requests = Len(http.responses) + 1
    /\ http.pc = "returned"
          => /\ http.requests = Len(http.responses)
             /\ IsSuccess(http.responses[Len(http.responses)])
             /\ http.outcome.status = http.responses[Len(http.responses)].status
    /\ http.pc = "threw"
          => /\ http.requests = http.retries + 1
             /\ Len(http.responses) = http.retries + 1
             /\ ~IsSuccess(http.responses[Len(http.responses)])
             /\ http.outcome.error = http.responses[Len(http.responses)]

\* C23: HttpClient.get always terminates after at most retries + 1 request
\* attempts: it returns the first 2xx response without further attempts, and
\* throws the last error after the final attempt when every attempt failed.
C23_GetTerminates ==
    /\ []C23_Attempts
    /\ [](http.pc = "loop" => <>(http.pc \in {"returned", "threw"}))

\* a get that returned on its third attempt
C23_Witness ==
    /\ http.pc = "returned"
    /\ http.retries = 3
    /\ Len(http.responses) = 3
    /\ http.responses[1] = HttpResponse(503)
    /\ http.responses[2] = HttpException

\* C24: dispatch follows one priority rule.  An input with topic is a
\* (re)initialization, whatever else it carries: no search starts and no
\* section is kept.  Otherwise an input with search_sources true is a search:
\* it starts the source discovery, or fails on the missing topic, and appends
\* nothing.  Otherwise an input with section_number and total_sections is an
\* append-section call.  Every other shape returns a validation error and
\* changes nothing.
C24_DispatchPriority ==
    [][ step'.kind = "call"
            => LET in == step'.input IN
               IF IsInitializeInput(in)
               THEN /\ ~IsErrorResult(result')
                    /\ state'.topic = JStr(ToStr(in.f.topic))
                    /\ state'.report_sections = <<>>
                    /\ state'.sources = <<>>
                    /\ inflight' = inflight
                    /\ sent' = <<>>
               ELSE IF IsSearchInput(in)
               THEN /\ state' = state
                    /\ IF state.topic = JNull
                       THEN IsErrorResult(result') /\ inflight' = inflight /\ sent' = <<>>
                       ELSE /\ Len(inflight') = Len(inflight) + 1
                            /\ Len(sent') = 1
                            /\ sent'[1].api = "naturalLanguageSearch"
               ELSE IF IsObject(in) /\ Has(in.f, "section_number") /\ Has(in.f, "total_sections")
               THEN /\ inflight' = inflight
                    /\ sent' = <<>>
                    /\ IF FailsSectionValidation(in.f)
                       THEN IsErrorResult(result') /\ state' = state
                       ELSE /\ ~IsErrorResult(result')
                            /\ Len(state'.report_sections) = Len(state.report_sections) + 1
               ELSE /\ IsErrorResult(result')
                    /\ result'.payload.status = "failed"
                    /\ state' = state
                    /\ inflight' = inflight
                    /\ sent' = <<>> ]_vars

\* an input with topic, search_sources and section fields has been handled
\* as an initialization
C24_Witness ==
    /\ InitializeStep
    /\ Get(step.input.f, "search_sources") = JBool(TRUE)
    /\ Has(step.input.f, "section_number")
    /\ state.sources = <<>>
    /\ state.report_sections = <<>>
    /\ inflight = <<>>
    /\ discoveredFor = JNull

\* C25: the workflow order is enforced: whenever the sections list is not
\* empty the topic is set and currentStep = 1.
C25_WorkflowOrder ==
    state.report_sections # <<>>
        => state.topic # JNull /\ state.current_step = 1

\* C26: a search step calls the source discovery with the stored topic and
\* sourceCount; it calls the graphics discovery, with count 5, exactly when
\* includeGraphics is true; when it is false no graphics query is sent, the
\* graphics list of the response is empty and the stored graphics stay.
C26_SearchStepCalls ==
    [][ /\ (step'.kind = "call" /\ IsSearchInput(step'.input) /\ state.topic # JNull)
            => /\ sent' = << Query("naturalLanguageSearch",
                                   "gallica all \"" \o state.topic.s \o "\"",
                                   state.source_count) >>
               /\ inflight' = << Suspended("sources", "s1", state.topic.s,
                                           state.source_count) >>
        /\ (step'.kind = "resume" /\ inflight # <<>> /\ inflight[1].pc = "sources")
            => IF state.include_graphics
               THEN /\ inflight' = << Suspended("graphics", "s1", state.topic.s, 5) >>
                    /\ \A i \in 1..Len(sent') : sent'[i].api # "advancedSearch"
               ELSE /\ inflight' = <<>>
                    /\ \A i \in 1..Len(sent') : sent'[i].api # "advancedSearch"
                    /\ ~IsErrorResult(result')
                    /\ result'.payload.graphics = <<>>
                    /\ state'.graphics = state.graphics
        /\ (step'.kind = "resume" /\ inflight # <<>> /\ inflight[1].pc = "graphics")
            => /\ state.include_graphics
               /\ sent' # <<>>
               /\ \A i \in 1..Len(sent') :
                     sent'[i].api = "advancedSearch" /\ sent'[i].max = 5
               /\ inflight' = <<>> ]_vars

\* a search step without graphics has completed with sources found
C26_Witness ==
    /\ step.kind = "resume"
    /\ inflight = <<>>
    /\ ~state.include_graphics
    /\ state.sources # <<>>
    /\ state.graphics = <<>>
    /\ ~IsErrorResult(result)
    /\ result.payload.graphics = <<>>

\* C27: currentStep is 0 or 1; it is 0 at the start, every (re)initialization
\* sets it to 0, every search step that completes sets it to 1, and no other
\* step changes it.
C27_CurrentStep ==
    [][ /\ state.current_step \in {0, 1}
        /\ state'.current_step \in {0, 1}
        /\ IF step'.kind = "call" /\ IsInitializeInput(step'.input)
           THEN state'.current_step = 0
           ELSE IF step'.kind = "resume" /\ Len(inflight') < Len(inflight)
           THEN state'.current_step = 1 /\ ~IsErrorResult(result')
           ELSE state'.current_step = state.current_step ]_vars

\* a re-initialization while a search step is suspended
C27_Witness ==
    /\ InitializeStep
    /\ state.current_step = 0
    /\ inflight # <<>>
    /\ state.plan.topic = "Y"

\* C30: a successful append-section call changes only the sections list and
\* plan.currentSection: topic, pageCount, sourceCount, includeGraphics,
\* sources, graphics, currentStep, plan.totalSections and the outline of the
\* plan stay, also when the incoming totalSections or sectionNumber exceeds
\* plan.totalSections.
C30_AppendFrame ==
    [][ (step'.kind = "call" /\ IsAppendInput(step'.input) /\ ~IsErrorResult(result'))
            => /\ Len(state'.report_sections) = Len(state.report_sections) + 1
               /\ state' = [state EXCEPT
                     !.report_sections = state'.report_sections,
                     !.plan = IF state.plan = JNull THEN JNull
                              ELSE [@ EXCEPT !.current_section =
                                      state'.plan.current_section]]
               /\ inflight' = inflight ]_vars

\* a section numbered beyond the plan has been appended to a report whose
\* sources had been searched
C30_Witness ==
    /\ AppendStep
    /\ ~IsErrorResult(result)
    /\ state.plan # JNull
    /\ state.sources # <<>>
    /\ state.current_step = 1
    /\ state.report_sections # <<>>
    /\ state.report_sections[Len(state.report_sections)].section_number
          > state.plan.total_sections
    /\ state.report_sections[Len(state.report_sections)].total_sections
          > state.plan.total_sections
    /\ state.plan.current_section > state.plan.total_sections

\* the step taken resumes a call suspended in the graphics discovery
GraphicsStep == step'.kind = "resume" /\ inflight # <<>> /\ inflight[1].pc = "graphics"

\* C28: the graphics discovery sends its queries in a fixed layered order:
\* the image query on the main keyword; the image query on the full topic
\* exactly when the first returned zero records; the map query on the main
\* keyword always; the map query on the full topic exactly when the previous
\* map query returned zero records; the broad image/map/print query exactly
\* when the image and the map results are both still empty; so between 2 and
\* 5 queries are sent.
C28_LayeredQueries ==
    [][ GraphicsStep =>
          LET topic == state.topic.s
              main == FirstToken(topic)
              q == sent'
              n == recordCounts'
              Sent(i, text) == q[i] = Query("advancedSearch", text, 5)
          IN /\ Len(q) \in 2..5
             /\ Len(n) = Len(q)
             /\ Sent(1, ImageQuery(main))
             /\ LET imageAgain == n[1] = 0
                    mapAt == IF imageAgain THEN 3 ELSE 2
                    mapAgain == n[mapAt] = 0
                    layers == IF mapAgain THEN mapAt + 1 ELSE mapAt
                    broad == n[mapAt - 1] = 0 /\ n[layers] = 0
                IN /\ imageAgain => Sent(2, ImageQuery(topic))
                   /\ Sent(mapAt, MapQuery(main))
                   /\ mapAgain => Sent(mapAt + 1, MapQuery(topic))
                   /\ Len(q) = IF broad THEN layers + 1 ELSE layers
                   /\ broad => Sent(layers + 1, GeneralQuery(main)) ]_vars

\* for a topic of two words: the first image query found nothing, the one on
\* the full topic found records, and both map queries found nothing, so four
\* queries were sent and no broad one
C28_Witness ==
    /\ step.kind = "resume"
    /\ state.topic = JStr("Y Z")
    /\ recordCounts = << 0, 2, 0, 0 >>
    /\ Len(sent) = 4
    /\ sent[2].query = ImageQuery("Y Z")
    /\ sent[3].query = MapQuery("Y")
    /\ sent[4].query = MapQuery("Y Z")

\* C29: the list the graphics discovery returns has at most targetCount
\* entries, its ids are 1..len in list order, every image entry precedes
\* every map entry, and the results of the broad query are labelled image.
C29_GraphicsList ==
    [][ GraphicsStep =>
          LET g == state'.graphics
              n == recordCounts'
              broad == sent'[Len(sent')].query = GeneralQuery(FirstToken(state.topic.s))
          IN /\ Len(g) <= 5
             /\ \A i \in 1..Len(g) : g[i].id = i /\ g[i].type \in {"image", "map"}
             /\ \A i, j \in 1..Len(g) : (g[i].type = "map" /\ g[j].type = "image") => j < i
             /\ (broad /\ n[Len(n)] > 0)
                  => /\ Len(g) = n[Len(n)]
                     /\ \A i \in 1..Len(g) :
                           g[i].type = "image" /\ Includes(g[i].url, "estampe")
             /\ ~IsErrorResult(result')
             /\ result'.payload.graphics = g ]_vars

\* three images and three maps were found: the list holds the three images
\* and the first two maps
C29_Witness ==
    /\ step.kind = "resume"
    /\ recordCounts = << 3, 3 >>
    /\ Len(state.graphics) = 5
    /\ state.graphics[3].type = "image"
    /\ state.graphics[4].type = "map"
    /\ state.graphics[5].id = 5

\* an append-section call has succeeded on a planned report and asks for a
\* next section
PlannedAppend ==
    /\ AppendStep
    /\ ~IsErrorResult(result)
    /\ state.plan # JNull
    /\ result.payload.nextSectionNeeded

CreateSection(k, title) == "Create section " \o NumToStr(k) \o ": " \o title

\* C31: in an initialized session, appending section n with
\* nextSectionNeeded = true and 1 <= n < plan.totalSections answers nextStep
\* "Create section n+1: T", T being the title of the (n+1)-th section of the
\* plan; after section 1 it is "Create section 2: Introduction".
C31_NextStepNamesNextSection ==
    LET n == result.payload.sectionNumber
    IN (PlannedAppend /\ 1 <= n /\ n < state.plan.total_sections)
          => /\ result.payload.nextStep = CreateSection(n + 1, state.plan.sections[n + 1].title)
             /\ n = 1 => result.payload.nextStep = "Create section 2: Introduction"

\* section 3 of the one-page plan has been appended: the conclusion is next
C31_Witness ==
    /\ PlannedAppend
    /\ state.plan.total_sections = 4
    /\ result.payload.sectionNumber = 3
    /\ result.payload.nextStep = "Create section 4: Conclusion"

\* C32: in an initialized session, appending the last section of the plan
\* with nextSectionNeeded = true answers nextStep "Report complete"; a
\* nextStep "Create section k: ..." is only answered with
\* k <= plan.totalSections and the title of the k-th section of the plan.
C32_LastSectionCompletes ==
    PlannedAppend
        => /\ result.payload.sectionNumber = state.plan.total_sections
                => result.payload.nextStep = "Report complete"
           /\ result.payload.nextStep \in
                {"Report complete"}
                \cup { CreateSection(k, state.plan.sections[k].title) :
                         k \in 1..state.plan.total_sections }

\* C34: the progress of an append-section response never exceeds 100%: after
\* every successful append the number of stored sections is at most the
\* totalSections of that response.
C34_ProgressAtMostWhole ==
    (AppendStep /\ ~IsErrorResult(result))
        => result.payload.reportSectionsCount <= result.payload.totalSections

\* response.statusCode >= 400 && response.statusCode < 500
IsClientError(o) == o.kind = "response" /\ o.status >= 400 /\ o.status < 500

\* C36: HttpClient.get does not retry client errors: once an attempt is
\* answered with a 4xx status no further request is made and get has thrown,
\* whatever the number of retries.
C36_ClientErrorsNotRetried ==
    \A i \in 1..Len(http.responses) :
        IsClientError(http.responses[i])
            => /\ http.requests = i
               /\ http.pc = "threw"

\* C33: after an initialization call that returned a plan, whatever topic
\* string it accepted, the search_sources call that follows immediately does
\* not fail with the "No topic specified" error.
C33_SearchAfterInitialization ==
    [][ (/\ InitializeStep
         /\ ~IsErrorResult(result)
         /\ result.payload.plan = state.plan
         /\ step'.kind = "call"
         /\ IsSearchInput(step'.input))
            => result' # NoTopicResult ]_vars

\* C35: no step of a search, whether the search passes its precondition or
\* fails it, changes the sections, the plan, topic, pageCount, sourceCount or
\* includeGraphics: the sections appended before are still there, in order.
C35_SearchFrame ==
    [][ (step'.kind = "resume" \/ (step'.kind = "call" /\ IsSearchInput(step'.input)))
            => /\ state'.report_sections = state.report_sections
               /\ state'.plan = state.plan
               /\ state'.topic = state.topic
               /\ state'.page_count = state.page_count
               /\ state'.source_count = state.source_count
               /\ state'.include_graphics = state.include_graphics ]_vars

\* a search step has completed on a report that already held a section
C35_Witness ==
    /\ step.kind = "resume"
    /\ inflight = <<>>
    /\ state.current_step = 1
    /\ state.sources # <<>>
    /\ state.report_sections # <<>>
    /\ state.plan # JNull

\* C37: the public SearchAPI methods never reject: a failure of the HTTP
\* client or of the XML parsing comes back as a result with zero records and
\* an error message, so the caller always receives a result value.
C37_SearchNeverRejects ==
    /\ result.outcome # "rejected"
    /\ step.kind = "searched"
          => /\ result.outcome = "resolved"
             /\ (http.pc = "threw" \/ step.body.kind \in {"malformed", "foreign"})
                  => /\ result.payload.records = <<>>
                     /\ result.payload.failed
                     /\ result.payload.error # ""

\* a searchBySubject call whose two requests were answered 503 and 404
C37_Witness ==
    /\ step.kind = "searched"
    /\ step.input = JStr("dc.subject all Y")
    /\ http.pc = "threw"
    /\ http.responses = << HttpResponse(503), HttpResponse(404) >>
    /\ result = Resolved(FALSE, SearchFailure("HTTP 404"))

\* the table holds the sessions opened by GET /message and not yet closed
ActiveAreOpen ==
    /\ transports.active = transports.open
    /\ transports.active \cap transports.closed = {}
    /\ transports.open \cup transports.closed
          = { TransportId(n) : n \in 1..transports.created }

\* C38 as stated: the table contains exactly the SSE sessions opened by
\* GET /message and not yet closed, and a POST /message carrying a sessionId
\* that is not in the table is answered 404 and dispatches nothing.
C38_SessionTable ==
    /\ []ActiveAreOpen
    /\ [][ (step'.kind = "post" /\ step'.input # JNull
            /\ step'.input.s \notin transports.active)
              => /\ result'.payload.status = 404
                 /\ result'.payload.dispatched = "none" ]_vars

\* C38, amended: the same, for a POST /message carrying a non-empty
\* sessionId that is not in the table; an empty sessionId is handled as no
\* sessionId at all.
C38_SessionTableNonEmptyId ==
    /\ []ActiveAreOpen
    /\ [][ (step'.kind = "post" /\ Truthy(step'.input)
            /\ step'.input.s \notin transports.active)
              => /\ result'.payload.status = 404
                 /\ result'.payload.dispatched = "none" ]_vars

\* a POST carrying the id of a session that has closed was answered 404
\* while another session is active
C38_Witness ==
    /\ step.kind = "post"
    /\ step.input = JStr("t1")
    /\ transports.closed = {"t1"}
    /\ transports.active = {"t2"}
    /\ result.payload.status = 404
    /\ result.payload.dispatched = "none"

====
